---------------------------- MODULE Spec2Model ----------------------------
(***************************************************************************)
(* StreetControl backend: the in-memory vote tally (ValidationService),    *)
(* the Socket.IO broker (SocketService), the attempt store (Attempt), the  *)
(* singleton CurrentState and the declared-weight state machine            *)
(* (StateMachine).                                                         *)
(*                                                                         *)
(* Every handler of the broker is an async function: it runs              *)
(* synchronously up to its next `await` of a database call, and resumes    *)
(* when that call completes.  A handler in flight is a task; one step of a *)
(* task is "its pending database call executes, and the continuation runs  *)
(* up to the next await".  node-sqlite3 is used in its default (parallel)  *)
(* mode (config/database-local.js never calls db.serialize()), so pending  *)
(* calls of different tasks complete in any order.                         *)
(***************************************************************************)
EXTENDS Integers, Sequences, FiniteSets, TLC

(***************************************************************************)
(* Bounds of the model                                                     *)
(***************************************************************************)
MaxTallyAttempts == 1   \* attempt ids used by the tally-only specification
MaxTasks == 2           \* handlers in flight at the same time
MaxCommands == 3        \* commands dispatched in one behaviour
MaxEntries == 3         \* registrations of the group in the ordering specification
MaxStoreRegs == 2       \* registrations of the group in the store specification
MaxBrokerCommands == 2  \* commands after the joins in the broker specification
MaxSyncRuns == 2        \* runs of sync.js in the sync specification

(***************************************************************************)
(* Vocabulary                                                              *)
(***************************************************************************)
Roles == {"HEAD", "LEFT", "RIGHT"}
Votes == {"WHITE", "RED"}
\* what a client can send: the valid values and one invalid value of each
RoleInputs == Roles \cup {"CENTER"}
VoteInputs == Votes \cup {"YELLOW"}
Null == "null"

VARIABLES
  votes,      \* ValidationService.votes : Map<attemptId, Map<judgeRole, vote>>
  attempts,   \* table attempts : id -> row
  cs,         \* table current_state, the singleton row
  tasks,      \* handlers in flight : task id -> frame
  ncmd,       \* number of commands dispatched so far
  call,       \* tally-only specification: the last call and what it returned
  voted,      \* tally-only specification: roles that voted since the last clear
  ordIn,      \* ordering and store specifications: the store getUpcomingOrder
              \* reads; machine specification: the flight the director runs
  ordOut      \* ordering and store specifications: the last queue returned;
              \* machine specification: the outcome of the last command

vars == <<votes, attempts, cs, tasks, ncmd, call, voted, ordIn, ordOut>>

(***************************************************************************)
(* JavaScript Map                                                          *)
(***************************************************************************)
EmptyMap == [k \in {} |-> Null]
MapSet(m, k, v) == [x \in (DOMAIN m) \cup {k} |-> IF x = k THEN v ELSE m[x]]
MapDelete(m, k) == [x \in (DOMAIN m) \ {k} |-> m[x]]
MapSize(m) == Cardinality(DOMAIN m)

(***************************************************************************)
(* ValidationService                                                       *)
(***************************************************************************)
CountOf(av, v) == Cardinality({r \in DOMAIN av : av[r] = v})

calculateResult_Unanimous(av) ==
  IF CountOf(av, "WHITE") >= 3 THEN "VALID" ELSE "INVALID"

\* _calculateResult(attemptVotes)
calculateResult(av) ==
  LET whiteCount == CountOf(av, "WHITE")
      redCount == CountOf(av, "RED")
  IN IF whiteCount >= 2 THEN "VALID"
     ELSE IF redCount >= 2 THEN "INVALID"
     ELSE "INVALID"

NoReturn == [isComplete |-> FALSE, result |-> Null, votes |-> EmptyMap]

storeVote_KeepFirst(vs, attemptId, judgeRole, vote) ==
  IF attemptId \in DOMAIN vs /\ judgeRole \in DOMAIN vs[attemptId] THEN vs
  ELSE LET vs1 == IF attemptId \in DOMAIN vs THEN vs ELSE MapSet(vs, attemptId, EmptyMap)
       IN MapSet(vs1, attemptId, MapSet(vs1[attemptId], judgeRole, vote))

\* registerVote, "Initialize votes for this attempt if not exists" and "Store
\* the vote": the tally after votes.set / attemptVotes.set
storeVote(vs, attemptId, judgeRole, vote) ==
  LET vs1 == IF attemptId \in DOMAIN vs THEN vs ELSE MapSet(vs, attemptId, EmptyMap)
  IN MapSet(vs1, attemptId, MapSet(vs1[attemptId], judgeRole, vote))

tallyComplete_AtTwo(attemptVotes) == MapSize(attemptVotes) >= 2

\* const isComplete = attemptVotes.size === 3
tallyComplete(attemptVotes) == MapSize(attemptVotes) = 3

registerVote_EntryFirst(vs, attemptId, judgeRole, vote) ==
  LET vs1 == IF attemptId \in DOMAIN vs THEN vs ELSE MapSet(vs, attemptId, EmptyMap)
  IN IF judgeRole \notin Roles
       THEN [threw |-> TRUE, error |-> "Invalid judge role", votes |-> vs1, ret |-> NoReturn]
     ELSE IF vote \notin Votes
       THEN [threw |-> TRUE, error |-> "Invalid vote", votes |-> vs1, ret |-> NoReturn]
     ELSE
       LET vs2 == storeVote(vs, attemptId, judgeRole, vote)
           attemptVotes == vs2[attemptId]
           isComplete == tallyComplete(attemptVotes)
       IN [threw |-> FALSE, error |-> Null, votes |-> vs2,
           ret |-> [isComplete |-> isComplete,
                    result |-> IF isComplete THEN calculateResult(attemptVotes) ELSE Null,
                    votes |-> attemptVotes]]

\* registerVote(attemptId, judgeRole, vote) on the tally vs: the tally after
\* the call, whether it threw, and the returned {isComplete, result, votes}
registerVote(vs, attemptId, judgeRole, vote) ==
  IF judgeRole \notin Roles
    THEN [threw |-> TRUE, error |-> "Invalid judge role", votes |-> vs, ret |-> NoReturn]
  ELSE IF vote \notin Votes
    THEN [threw |-> TRUE, error |-> "Invalid vote", votes |-> vs, ret |-> NoReturn]
  ELSE
    LET vs2 == storeVote(vs, attemptId, judgeRole, vote)
        attemptVotes == vs2[attemptId]
        isComplete == tallyComplete(attemptVotes)
    IN [threw |-> FALSE, error |-> Null, votes |-> vs2,
        ret |-> [isComplete |-> isComplete,
                 result |-> IF isComplete THEN calculateResult(attemptVotes) ELSE Null,
                 votes |-> attemptVotes]]

\* getVotes(attemptId): null, or {votes, isComplete, result}
getVotes(vs, attemptId) ==
  IF attemptId \notin DOMAIN vs THEN NoReturn
  ELSE LET attemptVotes == vs[attemptId]
           isComplete == tallyComplete(attemptVotes)
       IN [isComplete |-> isComplete,
           result |-> IF isComplete THEN calculateResult(attemptVotes) ELSE Null,
           votes |-> attemptVotes]
getVotesIsNull(vs, attemptId) == attemptId \notin DOMAIN vs

clearVotes_KeepEntry(vs, attemptId) ==
  IF attemptId \in DOMAIN vs THEN MapSet(vs, attemptId, EmptyMap) ELSE vs

\* clearVotes(attemptId): this.votes.delete(attemptId)
clearVotes(vs, attemptId) == MapDelete(vs, attemptId)
\* clearAllVotes(): this.votes.clear()
clearAllVotes(vs) == [a \in {} |-> EmptyMap]

hasVoted(vs, attemptId, judgeRole) ==
  IF attemptId \notin DOMAIN vs THEN FALSE ELSE judgeRole \in DOMAIN vs[attemptId]

getVoteCount(vs, attemptId) ==
  IF attemptId \notin DOMAIN vs THEN 0 ELSE MapSize(vs[attemptId])


(***************************************************************************)
(* Specification SpecTally: the ValidationService alone, called            *)
(* sequentially (test/test-2.3-services.js drives it this way).            *)
(***************************************************************************)
TallyAttemptIds == 1..MaxTallyAttempts

NoCall == [op |-> "none", attemptId |-> 0, judgeRole |-> Null, vote |-> Null,
           threw |-> FALSE, replaced |-> Null, ret |-> NoReturn]

\* the tally-only and ordering specifications leave the store and the
\* handlers out: no attempt row, no handler in flight
IdleStore ==
  /\ attempts = <<>>
  /\ cs = [meet_id |-> Null]
  /\ tasks = <<>>
  /\ ncmd = 0

InitTally ==
  /\ votes = [a \in {} |-> EmptyMap]      \* constructor: this.votes = new Map()
  /\ call = NoCall
  /\ voted = [a \in TallyAttemptIds |-> {}]
  /\ ordIn = <<>>
  /\ ordOut = <<>>
  /\ IdleStore

TallyRegisterVote ==
  \E a \in TallyAttemptIds, r \in RoleInputs, v \in VoteInputs :
    LET res == registerVote(votes, a, r, v)
    IN /\ votes' = res.votes
       /\ call' = [op |-> "registerVote", attemptId |-> a, judgeRole |-> r, vote |-> v,
                   threw |-> res.threw,
                   replaced |-> IF hasVoted(votes, a, r) THEN votes[a][r] ELSE Null,
                   ret |-> res.ret]
       /\ voted' = IF res.threw THEN voted ELSE [voted EXCEPT ![a] = @ \cup {r}]
       /\ UNCHANGED <<attempts, cs, tasks, ncmd, ordIn, ordOut>>

TallyClearVotes ==
  \E a \in TallyAttemptIds :
    /\ votes' = clearVotes(votes, a)
    /\ call' = [NoCall EXCEPT !.op = "clearVotes", !.attemptId = a]
    /\ voted' = [voted EXCEPT ![a] = {}]
    /\ UNCHANGED <<attempts, cs, tasks, ncmd, ordIn, ordOut>>

TallyClearAllVotes ==
  /\ votes' = clearAllVotes(votes)
  /\ call' = [NoCall EXCEPT !.op = "clearAllVotes"]
  /\ voted' = [a \in TallyAttemptIds |-> {}]
  /\ UNCHANGED <<attempts, cs, tasks, ncmd, ordIn, ordOut>>

NextTally == TallyRegisterVote \/ TallyClearVotes \/ TallyClearAllVotes

SpecTally == InitTally /\ [][NextTally]_vars

(***************************************************************************)
(* Claims about the tally (checked under SpecTally)                        *)
(***************************************************************************)
\* the majority of a complete tally, stated on the three roles one by one
TwoAgree(t, v) ==
  \/ t["HEAD"] = v /\ t["LEFT"] = v
  \/ t["HEAD"] = v /\ t["RIGHT"] = v
  \/ t["LEFT"] = v /\ t["RIGHT"] = v
MajorityOutcome(t) == IF TwoAgree(t, "WHITE") THEN "VALID" ELSE "INVALID"

LastCallRegistered == call.op = "registerVote" /\ ~call.threw

\* C2: once HEAD, LEFT and RIGHT have voted on an attempt (in any order), the
\* registerVote that completes the tally returns the majority of the three
\* votes: VALID when at least two are WHITE, INVALID when at least two are RED.
C2_MajorityOutcome ==
  (LastCallRegistered /\ call.ret.isComplete) =>
    LET t == votes[call.attemptId]
    IN /\ DOMAIN t = Roles
       /\ TwoAgree(t, "WHITE") => call.ret.result = "VALID"
       /\ TwoAgree(t, "RED") => call.ret.result = "INVALID"

C2_Witness ==
  /\ LastCallRegistered /\ call.ret.isComplete
  /\ call.ret.result = "VALID"
  /\ \E r \in Roles : votes[call.attemptId][r] = "RED"

C4_Overwrite ==
  [][ \A a \in TallyAttemptIds, r \in Roles :
        ( /\ call'.op = "registerVote" /\ ~call'.threw
          /\ call'.attemptId = a /\ call'.judgeRole = r
          /\ hasVoted(votes, a, r) /\ votes[a][r] # call'.vote )
        => /\ votes'[a][r] = call'.vote
           /\ DOMAIN votes'[a] = DOMAIN votes[a]
           /\ getVoteCount(votes', a) = getVoteCount(votes, a)
           /\ \A q \in DOMAIN votes[a] \ {r} : votes'[a][q] = votes[a][q]
           /\ call'.ret.votes = votes'[a]
           /\ getVoteCount(votes, a) = 3 =>
                /\ call'.ret.isComplete
                /\ call'.ret.result = MajorityOutcome(votes'[a]) ]_vars

C4_Witness ==
  /\ LastCallRegistered
  /\ call.replaced \in Votes /\ call.replaced # call.vote
  /\ getVoteCount(votes, call.attemptId) = 3
  /\ call.ret.result # MajorityOutcome(MapSet(votes[call.attemptId], call.judgeRole, call.replaced))

(***************************************************************************)
(* The store: catalog (static during a flight) and the attempts table      *)
(***************************************************************************)
NullId == 0                  \* SQL NULL in an id column
NoOpenerWeight == 999999     \* _getFirstAthleteForRound: "High number if not declared"

\* CurrentState.reset(): every pointer NULL, round 1
ResetRow ==
  [meet_id |-> NullId, current_flight_id |-> NullId, current_group_id |-> NullId,
   current_reg_id |-> NullId, current_lift_id |-> Null, current_round |-> 1]

\* database/local/seed.js: the singleton row is seeded on flight 1, group 1,
\* lift MU, round 1, registration 1
SeededRow ==
  [meet_id |-> 1, current_flight_id |-> 1, current_group_id |-> 1,
   current_reg_id |-> 1, current_lift_id |-> "MU", current_round |-> 1]

FlightIds == {1, 2}
LiftIds == {"MU"}

\* Flight.findGroupsByFlight(flightId): the group ids, ORDER BY g.ord.
\* Flight 1 has two groups, flight 2 has none yet, flight 3 has one group of
\* one athlete, flight 4 has one group without entries.
findGroupsByFlight(flightId) ==
  IF flightId = 1 THEN <<1, 2>>
  ELSE IF flightId = 3 THEN <<3>>
  ELSE IF flightId = 4 THEN <<4>>
  ELSE <<>>

\* table group_entries joined with registrations.bodyweight_kg
GroupEntryRows ==
  { [group_id |-> 1, reg_id |-> 1, start_ord |-> 1, bodyweight_kg |-> 70],
    [group_id |-> 1, reg_id |-> 2, start_ord |-> 2, bodyweight_kg |-> 75],
    [group_id |-> 2, reg_id |-> 3, start_ord |-> 1, bodyweight_kg |-> 80],
    [group_id |-> 2, reg_id |-> 4, start_ord |-> 2, bodyweight_kg |-> 85],
    [group_id |-> 3, reg_id |-> 5, start_ord |-> 1, bodyweight_kg |-> 90] }

\* table registration_maxes: the declared openers, reg_id -> lift_id -> kg.
\* Registrations 3 and 4 have declared the same opener; nobody has declared an
\* opener for a lift other than MU yet.
OpenerRows ==
  [r \in {1, 2, 3, 4, 5} |-> [l \in LiftIds |-> IF r = 4 THEN 95 ELSE 80 + 5 * r]]

\* table meet_type_lifts of the meet type, ORDER BY sequence
MeetTypeLifts == <<"MU", "PU">>

\* the attempt rows of the weigh-in: attempt 1 of every registration, PENDING,
\* with the opener as weight; the row id is the registration id
SeededAttempts ==
  [id \in {1, 2, 3} |->
     [reg_id |-> id, lift_id |-> "MU", attempt_no |-> 1,
      weight_kg |-> OpenerRows[id]["MU"], status |-> "PENDING"]]

\* the store once registration 1 (lowest opener) has lifted, the director has
\* pressed NEXT and registration 1 has declared 90 kg for its second attempt
\* (declareWeight creates the row, PENDING)
LiftedAttempts ==
  [id \in {1, 2, 3, 4} |->
     IF id = 4
       THEN [reg_id |-> 1, lift_id |-> "MU", attempt_no |-> 2,
             weight_kg |-> 90, status |-> "PENDING"]
       ELSE [SeededAttempts[id] EXCEPT !.status = IF id = 1 THEN "VALID" ELSE @]]

LiftedRow == [SeededRow EXCEPT !.current_reg_id = 2]

getGroupEntries_ByRegId(entryRows, groupId) ==
  LET rows == {e \in entryRows : e.group_id = groupId}
  IN [i \in 1..Cardinality(rows) |->
        CHOOSE x \in rows : Cardinality({y \in rows : y.reg_id < x.reg_id}) = i - 1]

\* Flight.getGroupEntries(groupId): ... WHERE ge.group_id = ? ORDER BY
\* ge.start_ord (start_ord is UNIQUE within a group): the i-th row is the one
\* with i - 1 rows of smaller start_ord
getGroupEntries(entryRows, groupId) ==
  LET rows == {e \in entryRows : e.group_id = groupId}
  IN [i \in 1..Cardinality(rows) |->
        CHOOSE x \in rows : Cardinality({y \in rows : y.start_ord < x.start_ord}) = i - 1]

getOpener_Default(openers, regId, liftId) ==
  IF regId \in DOMAIN openers /\ liftId \in DOMAIN openers[regId]
    THEN openers[regId][liftId] ELSE NoOpenerWeight

\* Registration.getOpeners(regId)[liftId]; 0 stands for undefined
getOpener(openers, regId, liftId) ==
  IF regId \in DOMAIN openers /\ liftId \in DOMAIN openers[regId]
    THEN openers[regId][liftId] ELSE 0

\* Attempt.findByRegistrationAndLift(regId, liftId): the ids of the rows
findByRegistrationAndLift(rows, regId, liftId) ==
  {id \in DOMAIN rows : rows[id].reg_id = regId /\ rows[id].lift_id = liftId}

updateStatus_AllRows(rows, id, status) ==
  [i \in DOMAIN rows |-> [rows[i] EXCEPT !.status = status]]

\* Attempt.updateStatus(id, status): UPDATE attempts SET status = ? WHERE id = ?
updateStatus(rows, id, status) ==
  IF id \in DOMAIN rows THEN [rows EXCEPT ![id].status = status] ELSE rows

(***************************************************************************)
(* StateMachine: the queue                                                 *)
(***************************************************************************)
\* the comparator of both sorts: declared weight ASC, then bodyweight DESC
compareDeclared(a, b) ==
  IF a.declaredWeight # b.declaredWeight
    THEN a.declaredWeight - b.declaredWeight
    ELSE b.bodyweight_kg - a.bodyweight_kg

\* x inserted into the sorted sequence s behind every element that does not
\* sort after it
RECURSIVE InsertSorted(_, _)
InsertSorted(s, x) ==
  IF s = <<>> THEN <<x>>
  ELSE IF compareDeclared(x, Head(s)) < 0 THEN <<x>> \o s
  ELSE <<Head(s)>> \o InsertSorted(Tail(s), x)

\* Array.prototype.sort with compareDeclared: the sort is stable (ES2019)
RECURSIVE SortDeclared(_)
SortDeclared(s) ==
  IF s = <<>> THEN <<>>
  ELSE InsertSorted(SortDeclared(SubSeq(s, 1, Len(s) - 1)), s[Len(s)])

WithWeight(e, w) ==
  [reg_id |-> e.reg_id, start_ord |-> e.start_ord,
   bodyweight_kg |-> e.bodyweight_kg, declaredWeight |-> w]

getUpcomingOrder_SkipFailed(entryRows, openers, rows, groupId, liftId, round) ==
  LET entries == getGroupEntries(entryRows, groupId)
      Mine(e) == findByRegistrationAndLift(rows, e.reg_id, liftId)
      hasAttemptedThisRound(e) ==
        \E id \in Mine(e) : rows[id].attempt_no = round /\ rows[id].status # "PENDING"
      failedBefore(e) ==
        \E id \in Mine(e) : rows[id].attempt_no < round /\ rows[id].status = "INVALID"
      currentAttempt(e) ==
        {id \in Mine(e) : rows[id].attempt_no = round /\ rows[id].status = "PENDING"}
      declaredWeight(e) ==
        IF round = 1 THEN getOpener(openers, e.reg_id, liftId)
        ELSE IF currentAttempt(e) = {} THEN 0
        ELSE rows[CHOOSE id \in currentAttempt(e) : TRUE].weight_kg
      Valid(e) == ~hasAttemptedThisRound(e) /\ ~failedBefore(e) /\ declaredWeight(e) # 0
      validAthletes == SelectSeq(entries, Valid)
  IN SortDeclared([i \in 1..Len(validAthletes) |->
                     WithWeight(validAthletes[i], declaredWeight(validAthletes[i]))])

\* getUpcomingOrder(groupId, liftId, round) on the rows it reads
getUpcomingOrder(entryRows, openers, rows, groupId, liftId, round) ==
  LET entries == getGroupEntries(entryRows, groupId)
      Mine(e) == findByRegistrationAndLift(rows, e.reg_id, liftId)
      hasAttemptedThisRound(e) ==
        \E id \in Mine(e) : rows[id].attempt_no = round /\ rows[id].status # "PENDING"
      currentAttempt(e) ==
        {id \in Mine(e) : rows[id].attempt_no = round /\ rows[id].status = "PENDING"}
      declaredWeight(e) ==
        IF round = 1 THEN getOpener(openers, e.reg_id, liftId)
        ELSE IF currentAttempt(e) = {} THEN 0
        ELSE rows[CHOOSE id \in currentAttempt(e) : TRUE].weight_kg
      Valid(e) == ~hasAttemptedThisRound(e) /\ declaredWeight(e) # 0
      validAthletes == SelectSeq(entries, Valid)
  IN SortDeclared([i \in 1..Len(validAthletes) |->
                     WithWeight(validAthletes[i], declaredWeight(validAthletes[i]))])

\* _getFirstAthleteForRound(entries, liftId, 1): the openers, 999999 where
\* none is declared; nobody is skipped
getFirstAthleteForRound1(entryRows, openers, groupId, liftId) ==
  LET entries == getGroupEntries(entryRows, groupId)
      w(e) == IF getOpener(openers, e.reg_id, liftId) # 0
                THEN getOpener(openers, e.reg_id, liftId) ELSE NoOpenerWeight
  IN SortDeclared([i \in 1..Len(entries) |-> WithWeight(entries[i], w(entries[i]))])[1]

(***************************************************************************)
(* SocketService: sessions, rooms, events                                  *)
(***************************************************************************)
\* socket.data after the join handlers ran.  _handleJoinJudge stores the role
\* and meetId the client sent, unchecked; _handleJoinRegista stores meetId;
\* _handleJoinViewer and _handleJoinMeet store nothing.
SocketData ==
  [jH     |-> [judgeRole |-> "HEAD",   meetId |-> "1"],
   jL     |-> [judgeRole |-> "LEFT",   meetId |-> "1"],
   jR     |-> [judgeRole |-> "RIGHT",  meetId |-> "1"],
   jX     |-> [judgeRole |-> "CENTER", meetId |-> "1"],
   reg    |-> [judgeRole |-> Null,     meetId |-> "1"],
   viewer |-> [judgeRole |-> Null,     meetId |-> Null]]

Sockets == DOMAIN SocketData
\* the sessions that send NEXT in the model
NextSenders == {"reg"}
\* attempt ids a client sends with a vote: the attempts of the group on deck
AttemptInputs == {1, 2}
\* the judge:vote messages of the model: every valid vote of the three judges
\* on these attempts, and one message each from a session that joined with an
\* unknown role, with an unknown vote value, and from a session that never
\* joined as judge
VoteMessages ==
  [socket : {"jH", "jL", "jR"}, attemptId : AttemptInputs, vote : Votes]
    \cup {[socket |-> "jX", attemptId |-> 1, vote |-> "WHITE"],
          [socket |-> "jH", attemptId |-> 1, vote |-> "YELLOW"],
          [socket |-> "viewer", attemptId |-> 1, vote |-> "WHITE"]}

\* `meet_${meetId}`, `regista_${meetId}` with the meetId of socket.data
MeetRoom(s) ==
  IF SocketData[s].meetId = Null THEN "meet_undefined" ELSE "meet_1"
RegistaRoom(s) ==
  IF SocketData[s].meetId = Null THEN "regista_undefined" ELSE "regista_1"
\* socket.emit: to the originating session only
SocketRoom(s) == s

NoEvent ==
  [to |-> Null, event |-> Null, attemptId |-> NullId, judgeRole |-> Null,
   vote |-> Null, voteCount |-> 0, result |-> Null, votes |-> EmptyMap,
   state |-> ResetRow, queue |-> <<>>, message |-> Null, weightKg |-> 0,
   seconds |-> 0]

ErrorEvent(s, msg) ==
  [NoEvent EXCEPT !.to = SocketRoom(s), !.event = "error", !.message = msg]

(***************************************************************************)
(* Handlers in flight                                                      *)
(***************************************************************************)
TaskIds == 1..MaxTasks

NoUpdate == [fields |-> {}, vals |-> ResetRow]

IdleFrame ==
  [kind |-> "idle", pc |-> "idle", socket |-> Null, attemptId |-> NullId,
   judgeRole |-> Null, vote |-> Null, ret |-> NoReturn, st |-> ResetRow,
   upd |-> NoUpdate, finished |-> FALSE, error |-> Null, out |-> <<>>]

\* a handler that is done has returned: its locals are gone by the next step
Returned(frames) ==
  [t \in DOMAIN frames |-> IF frames[t].pc = "done" THEN IdleFrame ELSE frames[t]]

Free(t) == tasks[t].pc \in {"idle", "done"}
\* a new handler takes the lowest free frame
FreeSlot(t) == Free(t) /\ \A u \in TaskIds : u < t => ~Free(u)
CanDispatch == ncmd < MaxCommands

\* CurrentState.update(data): UPDATE current_state SET <the given fields>
applyUpdate(row, upd) ==
  [f \in DOMAIN row |-> IF f \in upd.fields THEN upd.vals[f] ELSE row[f]]

\* the tally once HEAD and LEFT have voted WHITE on the attempt on deck
TwoVotesIn == storeVote(storeVote(EmptyMap, 2, "HEAD", "WHITE"), 2, "LEFT", "WHITE")

\* the meet in mid-flight, registration 2 on deck for its first attempt: no
\* judge has voted on it yet, or two of them have
Init ==
  /\ votes \in {EmptyMap, TwoVotesIn}
  /\ attempts = LiftedAttempts
  /\ cs = LiftedRow
  /\ tasks = [t \in TaskIds |-> IdleFrame]
  /\ ncmd = 0
  /\ call = NoCall
  /\ voted = [a \in TallyAttemptIds |-> {}]
  /\ ordIn = <<>>
  /\ ordOut = <<>>

Others == <<call, voted, ordIn, ordOut>>

(***************************************************************************)
(* _handleJudgeVote                                                        *)
(***************************************************************************)
\* the handler up to its first await: the authentication check, registerVote,
\* vote:received, and either the call of finalizeAttempt or vote:confirmed
DispatchVote ==
  \E t \in TaskIds, data \in VoteMessages :
    LET s == data.socket
        a == data.attemptId
        v == data.vote
        judgeRole == SocketData[s].judgeRole
        res == registerVote(votes, a, judgeRole, v)
        frame == [IdleFrame EXCEPT !.kind = "vote", !.socket = s, !.attemptId = a,
                                   !.judgeRole = judgeRole, !.vote = v]
        received ==
          [NoEvent EXCEPT !.to = RegistaRoom(s), !.event = "vote:received",
                          !.attemptId = a, !.judgeRole = judgeRole, !.vote = v,
                          !.voteCount = IF res.ret.isComplete THEN 3
                                        ELSE getVoteCount(res.votes, a)]
        confirmed ==
          [NoEvent EXCEPT !.to = SocketRoom(s), !.event = "vote:confirmed",
                          !.attemptId = a, !.vote = v]
    IN /\ CanDispatch /\ FreeSlot(t)
       /\ ncmd' = ncmd + 1
       /\ IF judgeRole = Null
            THEN /\ votes' = votes
                 /\ tasks' = [Returned(tasks) EXCEPT ![t] =
                      [frame EXCEPT !.pc = "done", !.error = "Not authenticated as judge",
                                    !.out = <<ErrorEvent(s, "Not authenticated as judge")>>]]
          ELSE IF res.threw
            THEN /\ votes' = res.votes
                 /\ tasks' = [Returned(tasks) EXCEPT ![t] =
                      [frame EXCEPT !.pc = "done", !.error = res.error,
                                    !.out = <<ErrorEvent(s, res.error)>>]]
          ELSE IF res.ret.isComplete
            THEN /\ votes' = res.votes
                 /\ tasks' = [Returned(tasks) EXCEPT ![t] =
                      [frame EXCEPT !.pc = "finalize", !.ret = res.ret,
                                    !.out = <<received>>]]
          ELSE /\ votes' = res.votes
               /\ tasks' = [Returned(tasks) EXCEPT ![t] =
                    [frame EXCEPT !.pc = "done", !.ret = res.ret,
                                  !.out = <<received, confirmed>>]]
       /\ UNCHANGED <<attempts, cs, Others>>

ResultEvent(f) ==
  [NoEvent EXCEPT !.to = MeetRoom(f.socket), !.event = "attempt:result",
                  !.attemptId = f.attemptId, !.result = f.ret.result,
                  !.votes = f.ret.votes]

VoteFinalize_AutoNext ==
  \E t \in TaskIds :
    LET f == tasks[t]
        rows == updateStatus(attempts, f.attemptId, f.ret.result)
        queue == getUpcomingOrder(GroupEntryRows, OpenerRows, rows,
                                  cs.current_group_id, cs.current_lift_id, cs.current_round)
    IN /\ f.kind = "vote" /\ f.pc = "finalize"
       /\ attempts' = rows
       /\ votes' = clearVotes(votes, f.attemptId)
       /\ cs' = IF queue # <<>> THEN [cs EXCEPT !.current_reg_id = queue[1].reg_id]
                ELSE IF cs.current_round < 3 THEN [cs EXCEPT !.current_round = @ + 1]
                ELSE cs
       /\ tasks' = [Returned(tasks) EXCEPT ![t] =
            [f EXCEPT !.pc = "rankings", !.out = Append(@, ResultEvent(f))]]
       /\ UNCHANGED <<ncmd, Others>>

\* await validationService.finalizeAttempt(attemptId, result.result): the
\* status write executes, the votes are cleared, attempt:result is broadcast
VoteFinalize ==
  \E t \in TaskIds :
    LET f == tasks[t]
    IN /\ f.kind = "vote" /\ f.pc = "finalize"
       /\ attempts' = updateStatus(attempts, f.attemptId, f.ret.result)
       /\ votes' = clearVotes(votes, f.attemptId)
       /\ tasks' = [Returned(tasks) EXCEPT ![t] =
            [f EXCEPT !.pc = "rankings", !.out = Append(@, ResultEvent(f))]]
       /\ UNCHANGED <<cs, ncmd, Others>>

\* const state = await stateMachine.getCurrentAthlete() executes, then
\* await rankingService.calculateRankings(state.meet_id, state.current_lift_id)
\* (it only reads; of its result the model keeps the state it was asked for):
\* ranking:update to the meet, vote:confirmed to the judge
VoteRankings ==
  \E t \in TaskIds :
    LET f == tasks[t]
        ranking == [NoEvent EXCEPT !.to = MeetRoom(f.socket), !.event = "ranking:update",
                                   !.state = cs]
        confirmed == [NoEvent EXCEPT !.to = SocketRoom(f.socket), !.event = "vote:confirmed",
                                     !.attemptId = f.attemptId, !.vote = f.vote]
    IN /\ f.kind = "vote" /\ f.pc = "rankings"
       /\ tasks' = [Returned(tasks) EXCEPT ![t] =
            [f EXCEPT !.pc = "done", !.st = cs, !.out = @ \o <<ranking, confirmed>>]]
       /\ UNCHANGED <<votes, attempts, cs, ncmd, Others>>

(***************************************************************************)
(* _handleRegistaNext and StateMachine.next                                *)
(***************************************************************************)
FinishedEvent(s) ==
  [NoEvent EXCEPT !.to = MeetRoom(s), !.event = "competition:finished",
                  !.message = "Competition completed for this group"]

\* next() returned {finished: true}: competition:finished, and the handler returns
FinishedFrame(f) ==
  [f EXCEPT !.pc = "done", !.finished = TRUE, !.out = Append(@, FinishedEvent(f.socket))]

IndexOf(seq, x) ==
  IF \E i \in 1..Len(seq) : seq[i] = x
    THEN CHOOSE i \in 1..Len(seq) : seq[i] = x ELSE 0

\* _moveToNextGroup(state) up to its CurrentState.update: the update it is
\* about to write, or no field when it returns {finished: true}
moveToNextGroup(state) ==
  LET groups == findGroupsByFlight(state.current_flight_id)
      currentIndex == IndexOf(groups, state.current_group_id)
      nextGroup == groups[currentIndex + 1]
  IN IF currentIndex = 0 \/ currentIndex = Len(groups) THEN NoUpdate
     ELSE IF getGroupEntries(GroupEntryRows, nextGroup) = <<>> THEN NoUpdate
     ELSE [fields |-> {"current_group_id", "current_reg_id", "current_round"},
           vals |-> [ResetRow EXCEPT
             !.current_group_id = nextGroup,
             !.current_reg_id =
                getFirstAthleteForRound1(GroupEntryRows, OpenerRows, nextGroup,
                                         state.current_lift_id).reg_id,
             !.current_round = 1]]

DispatchNext_Unchecked ==
  \E t \in TaskIds, s \in NextSenders :
    /\ CanDispatch /\ FreeSlot(t)
    /\ ncmd' = ncmd + 1
    /\ tasks' = [Returned(tasks) EXCEPT ![t] =
         [IdleFrame EXCEPT !.kind = "next", !.socket = s, !.st = cs, !.pc = "order"]]
    /\ UNCHANGED <<votes, attempts, cs, Others>>

\* the handler is called and CurrentState.get() of next() executes
DispatchNext ==
  \E t \in TaskIds, s \in NextSenders :
    LET frame == [IdleFrame EXCEPT !.kind = "next", !.socket = s, !.st = cs]
        msg == "State not initialized. Call initialize() first."
    IN /\ CanDispatch /\ FreeSlot(t)
       /\ ncmd' = ncmd + 1
       /\ IF cs.current_flight_id = NullId \/ cs.current_lift_id = Null
            THEN tasks' = [Returned(tasks) EXCEPT ![t] =
                   [frame EXCEPT !.pc = "done", !.error = msg, !.out = <<ErrorEvent(s, msg)>>]]
            ELSE tasks' = [Returned(tasks) EXCEPT ![t] = [frame EXCEPT !.pc = "order"]]
       /\ UNCHANGED <<votes, attempts, cs, Others>>

\* getUpcomingOrder(current_group_id, current_lift_id, current_round) executes
NextOrder ==
  \E t \in TaskIds :
    LET f == tasks[t]
        upcomingOrder == getUpcomingOrder(GroupEntryRows, OpenerRows, attempts,
                           f.st.current_group_id, f.st.current_lift_id, f.st.current_round)
        moved == moveToNextGroup(f.st)
    IN /\ f.kind = "next" /\ f.pc = "order"
       /\ tasks' = [Returned(tasks) EXCEPT ![t] =
            IF upcomingOrder # <<>>
              THEN [f EXCEPT !.pc = "update",
                             !.upd = [fields |-> {"current_reg_id"},
                                      vals |-> [ResetRow EXCEPT !.current_reg_id =
                                                  upcomingOrder[1].reg_id]]]
            ELSE IF f.st.current_round < 3
              THEN [f EXCEPT !.pc = "roundOrder"]
            ELSE IF moved.fields = {} THEN FinishedFrame(f)
            ELSE [f EXCEPT !.pc = "update", !.upd = moved]]
       /\ UNCHANGED <<votes, attempts, cs, ncmd, Others>>

\* _startNextRound: getUpcomingOrder(group, lift, current_round + 1) executes
NextRoundOrder ==
  \E t \in TaskIds :
    LET f == tasks[t]
        nextRound == f.st.current_round + 1
        upcomingOrder == getUpcomingOrder(GroupEntryRows, OpenerRows, attempts,
                           f.st.current_group_id, f.st.current_lift_id, nextRound)
    IN /\ f.kind = "next" /\ f.pc = "roundOrder"
       /\ tasks' = [Returned(tasks) EXCEPT ![t] =
            IF upcomingOrder = <<>> THEN FinishedFrame(f)
            ELSE [f EXCEPT !.pc = "update",
                           !.upd = [fields |-> {"current_reg_id", "current_round"},
                                    vals |-> [ResetRow EXCEPT
                                      !.current_reg_id = upcomingOrder[1].reg_id,
                                      !.current_round = nextRound]]]]
       /\ UNCHANGED <<votes, attempts, cs, ncmd, Others>>

\* await CurrentState.update({...}) executes
NextUpdate ==
  \E t \in TaskIds :
    LET f == tasks[t]
    IN /\ f.kind = "next" /\ f.pc = "update"
       /\ cs' = applyUpdate(cs, f.upd)
       /\ tasks' = [Returned(tasks) EXCEPT ![t] = [f EXCEPT !.pc = "getNew"]]
       /\ UNCHANGED <<votes, attempts, ncmd, Others>>

\* return await CurrentState.get(); the handler broadcasts state:update
NextGetNew ==
  \E t \in TaskIds :
    LET f == tasks[t]
        update == [NoEvent EXCEPT !.to = MeetRoom(f.socket), !.event = "state:update",
                                  !.state = cs]
    IN /\ f.kind = "next" /\ f.pc = "getNew"
       /\ tasks' = [Returned(tasks) EXCEPT ![t] =
            [f EXCEPT !.pc = "queue", !.st = cs, !.out = Append(@, update)]]
       /\ UNCHANGED <<votes, attempts, cs, ncmd, Others>>

\* getUpcomingOrder(newState...) executes; queue:update to the regista room
NextQueue ==
  \E t \in TaskIds :
    LET f == tasks[t]
        upcomingOrder == getUpcomingOrder(GroupEntryRows, OpenerRows, attempts,
                           f.st.current_group_id, f.st.current_lift_id, f.st.current_round)
        update == [NoEvent EXCEPT !.to = RegistaRoom(f.socket), !.event = "queue:update",
                                  !.queue = upcomingOrder]
    IN /\ f.kind = "next" /\ f.pc = "queue"
       /\ tasks' = [Returned(tasks) EXCEPT ![t] =
            [f EXCEPT !.pc = "done", !.out = Append(@, update)]]
       /\ UNCHANGED <<votes, attempts, cs, ncmd, Others>>

(***************************************************************************)
(* StateMachine.initialize and StateMachine.reset                          *)
(***************************************************************************)
\* initialize(meetId, flightId, liftId) is called and its CurrentState.reset()
\* executes; the groups, entries and openers it reads next do not change
DispatchInitialize ==
  \E t \in TaskIds, flightId \in FlightIds, liftId \in LiftIds :
    LET frame == [IdleFrame EXCEPT !.kind = "initialize"]
        groups == findGroupsByFlight(flightId)
        firstGroup == groups[1]
        entries == getGroupEntries(GroupEntryRows, firstGroup)
        firstAthlete == getFirstAthleteForRound1(GroupEntryRows, OpenerRows, firstGroup, liftId)
    IN /\ CanDispatch /\ FreeSlot(t)
       /\ ncmd' = ncmd + 1
       /\ cs' = ResetRow
       /\ tasks' = [Returned(tasks) EXCEPT ![t] =
            IF groups = <<>>
              THEN [frame EXCEPT !.pc = "done", !.error = "No groups in flight"]
            ELSE IF entries = <<>>
              THEN [frame EXCEPT !.pc = "done", !.error = "No athletes in first group"]
            ELSE [frame EXCEPT !.pc = "initUpdate",
                    !.upd = [fields |-> DOMAIN ResetRow,
                             vals |-> [meet_id |-> 1, current_flight_id |-> flightId,
                                       current_group_id |-> firstGroup,
                                       current_reg_id |-> firstAthlete.reg_id,
                                       current_lift_id |-> liftId, current_round |-> 1]]]]
       /\ UNCHANGED <<votes, attempts, Others>>

\* await CurrentState.update({meet_id, ..., current_round: 1}) executes
InitUpdate ==
  \E t \in TaskIds :
    LET f == tasks[t]
    IN /\ f.kind = "initialize" /\ f.pc = "initUpdate"
       /\ cs' = applyUpdate(cs, f.upd)
       /\ tasks' = [Returned(tasks) EXCEPT ![t] = [f EXCEPT !.pc = "initGet"]]
       /\ UNCHANGED <<votes, attempts, ncmd, Others>>

\* return await CurrentState.get()
InitGet ==
  \E t \in TaskIds :
    LET f == tasks[t]
    IN /\ f.kind = "initialize" /\ f.pc = "initGet"
       /\ tasks' = [Returned(tasks) EXCEPT ![t] = [f EXCEPT !.pc = "done", !.st = cs]]
       /\ UNCHANGED <<votes, attempts, cs, ncmd, Others>>

\* reset(): await CurrentState.reset()
DispatchReset ==
  \E t \in TaskIds :
    /\ CanDispatch /\ FreeSlot(t)
    /\ ncmd' = ncmd + 1
    /\ cs' = ResetRow
    /\ tasks' = [Returned(tasks) EXCEPT ![t] = [IdleFrame EXCEPT !.kind = "reset", !.pc = "done"]]
    /\ UNCHANGED <<votes, attempts, Others>>

Next ==
  \/ DispatchVote \/ VoteFinalize \/ VoteRankings
  \/ DispatchNext \/ NextOrder \/ NextRoundOrder \/ NextUpdate \/ NextGetNew \/ NextQueue
  \/ DispatchInitialize \/ InitUpdate \/ InitGet
  \/ DispatchReset

Spec == Init /\ [][Next]_vars

(***************************************************************************)
(* Claims about the broker and the state machine (checked under Spec)      *)
(***************************************************************************)
\* the step is one of the vote handler of frame t
VoteStep(t) == tasks'[t] # tasks[t] /\ tasks'[t].kind = "vote"

\* the step dispatches a vote that reaches registerVote in frame t
VoteDispatched(t) ==
  /\ ncmd' = ncmd + 1 /\ VoteStep(t)
  /\ tasks'[t].judgeRole # Null

\* the step is the finalization (status write, clear, attempt:result) of frame t
Finalized(t) ==
  tasks[t].kind = "vote" /\ tasks[t].pc = "finalize" /\ tasks'[t].pc # "finalize"

ResultEvents(f) == {i \in DOMAIN f.out : f.out[i].event = "attempt:result"}

\* C1: every attempt's status changes at most once and only from PENDING: a
\* finalization aimed at an attempt that is already VALID or INVALID leaves the
\* stored status as it was.
C1_StatusLeavesPendingOnce ==
  [][ \A id \in DOMAIN attempts :
        attempts'[id].status # attempts[id].status => attempts[id].status = "PENDING" ]_vars

\* C5: a vote with a role outside {HEAD, LEFT, RIGHT} or a value outside
\* {WHITE, RED} fails: the tally of every attempt, the attempts and the current
\* state stay as they were, no entry is created, and the only event is an error
\* to the session that sent the vote.
C5_BadVoteRejected ==
  [][ \A t \in TaskIds :
        ( VoteDispatched(t) /\ (tasks'[t].judgeRole \notin Roles \/ tasks'[t].vote \notin Votes) )
        => /\ votes' = votes /\ attempts' = attempts /\ cs' = cs
           /\ tasks'[t].pc = "done" /\ tasks'[t].error # Null
           /\ Len(tasks'[t].out) = 1
           /\ tasks'[t].out[1].event = "error"
           /\ tasks'[t].out[1].to = SocketRoom(tasks'[t].socket) ]_vars

C5_Witness ==
  \E t \in TaskIds :
    /\ tasks[t].kind = "vote" /\ tasks[t].pc = "done"
    /\ tasks[t].judgeRole = "CENTER" /\ tasks[t].vote \in Votes
    /\ tasks[t].error = "Invalid judge role"
    /\ getVoteCount(votes, tasks[t].attemptId) = 2

\* C6: an attempt's status leaves PENDING only in the finalization step of a
\* vote handler whose vote completed the tally of that attempt; the tally then
\* still holds all three roles, the status written is the majority of the three
\* votes the tally held when the vote completed it, and a vote that does not
\* complete the tally starts no finalization.
C6_FinalizedByCompleteTally ==
  [][ /\ \A id \in DOMAIN attempts :
           (attempts[id].status = "PENDING" /\ attempts'[id].status # "PENDING")
           => \E t \in TaskIds :
                /\ Finalized(t) /\ tasks[t].attemptId = id
                /\ tasks[t].ret.isComplete
                /\ DOMAIN tasks[t].ret.votes = Roles
                /\ attempts'[id].status = MajorityOutcome(tasks[t].ret.votes)
                /\ getVoteCount(votes, id) = 3
      /\ \A t \in TaskIds :
           (VoteStep(t) /\ tasks'[t].pc = "finalize")
           => /\ VoteDispatched(t)
              /\ tasks'[t].ret.isComplete
              /\ tasks'[t].ret.votes = votes'[tasks'[t].attemptId]
              /\ DOMAIN votes'[tasks'[t].attemptId] = Roles ]_vars

C6_Witness ==
  \E t \in TaskIds :
    /\ tasks[t].kind = "vote" /\ tasks[t].pc = "done" /\ tasks[t].ret.isComplete
    /\ attempts[tasks[t].attemptId].status = "INVALID"
    /\ \E r \in Roles : tasks[t].ret.votes[r] = "WHITE"

C8_VotesLeaveCurrentState ==
  [][ /\ \A t \in TaskIds : VoteStep(t) => cs' = cs
      /\ cs' # cs => \E t \in TaskIds :
                       /\ tasks'[t] # tasks[t]
                       /\ tasks'[t].kind \in {"next", "initialize", "reset"} ]_vars

C8_Witness ==
  \E t \in TaskIds :
    /\ tasks[t].kind = "vote" /\ tasks[t].pc = "done" /\ tasks[t].ret.isComplete
    /\ tasks[t].attemptId = cs.current_reg_id
    /\ attempts[2].status # "PENDING"
    /\ cs = LiftedRow

\* C9: NEXT is processed only after a finalization in progress, so when NEXT
\* writes the pointer, the athlete it selected from the queue still has a
\* PENDING attempt of the current round: it never selects an athlete on a
\* status that a finalization has already replaced.
C9_NextSelectsPending ==
  [][ \A t \in TaskIds :
        ( /\ tasks[t].kind = "next" /\ tasks[t].pc = "update" /\ tasks'[t].pc = "getNew"
          /\ cs'.current_lift_id # Null )
        => \E id \in DOMAIN attempts :
             /\ attempts[id].reg_id = cs'.current_reg_id
             /\ attempts[id].lift_id = cs'.current_lift_id
             /\ attempts[id].attempt_no = cs'.current_round
             /\ attempts[id].status = "PENDING" ]_vars

\* C13: initialize leaves CurrentState on the given flight and lift, on the
\* first group of the flight by ord, on round 1, and on the registration that
\* heads getUpcomingOrder(group, lift, 1), also when an athlete of the group
\* has no opener or already has a finalized first attempt.
C13_InitializeSelectsQueueHead ==
  [][\A t \in TaskIds :
       (tasks[t].kind = "initialize" /\ tasks[t].pc = "initUpdate"
          /\ tasks'[t].pc = "initGet") =>
         LET upcomingOrder ==
               getUpcomingOrder(GroupEntryRows, OpenerRows, attempts,
                                cs'.current_group_id, cs'.current_lift_id, 1)
         IN /\ cs'.current_flight_id = tasks[t].upd.vals.current_flight_id
            /\ cs'.current_lift_id = tasks[t].upd.vals.current_lift_id
            /\ cs'.current_group_id = findGroupsByFlight(cs'.current_flight_id)[1]
            /\ cs'.current_round = 1
            /\ upcomingOrder # <<>>
            /\ cs'.current_reg_id = upcomingOrder[1].reg_id]_vars

\* every pointer of CurrentState is nil
Idle(state) ==
  /\ state.meet_id = NullId /\ state.current_flight_id = NullId
  /\ state.current_group_id = NullId /\ state.current_reg_id = NullId
  /\ state.current_lift_id = Null

\* every pointer is set, the group is one of the flight, the registration is
\* entered in the group, the round is 1, 2 or 3
Coherent(state) ==
  /\ state.meet_id # NullId /\ state.current_flight_id # NullId
  /\ state.current_group_id # NullId /\ state.current_reg_id # NullId
  /\ state.current_lift_id # Null
  /\ IndexOf(findGroupsByFlight(state.current_flight_id), state.current_group_id) > 0
  /\ \E e \in GroupEntryRows :
       e.group_id = state.current_group_id /\ e.reg_id = state.current_reg_id
  /\ state.current_round \in 1..3

\* C15: whatever initialize, next and reset commands have been issued,
\* CurrentState is idle, with every pointer nil, or fully set and coherent;
\* it never has only some of its pointers set.
C15_IdleOrCoherent == Idle(cs) \/ Coherent(cs)

\* the step dispatches a NEXT into frame t
NextDispatched(t) ==
  /\ ncmd' = ncmd + 1 /\ tasks'[t] # tasks[t] /\ tasks'[t].kind = "next"

\* C19: NEXT issued while the machine is idle fails with an error sent to the
\* issuing session only; CurrentState and the attempts are unchanged, and no
\* state:update, queue:update or competition:finished is broadcast.
C19_NextWhileIdle ==
  [][ \A t \in TaskIds :
        (NextDispatched(t) /\ Idle(cs))
        => /\ cs' = cs /\ attempts' = attempts
           /\ tasks'[t].pc = "done" /\ tasks'[t].error # Null
           /\ Len(tasks'[t].out) = 1
           /\ tasks'[t].out[1].event = "error"
           /\ tasks'[t].out[1].to = SocketRoom(tasks'[t].socket) ]_vars

\* a NEXT sent after reset() has been answered with the error
C19_Witness ==
  /\ Idle(cs)
  /\ \E t \in TaskIds :
       /\ tasks[t].kind = "next" /\ tasks[t].pc = "done"
       /\ tasks[t].error = "State not initialized. Call initialize() first."
       /\ tasks[t].out = <<ErrorEvent(tasks[t].socket, tasks[t].error)>>

\* the rooms of meet 1, and the rooms `meet_${undefined}`, `regista_${undefined}`
\* a handler addresses when socket.data has no meetId
RoomNames ==
  {"meet_1", "judges_1", "regista_1", "viewers_1", "meet_undefined",
   "regista_undefined"}

\* the events of out that go to a room, not to the originating session
Broadcasts(out) == {i \in DOMAIN out : out[i].to \in RoomNames}

\* frame t broadcasts at least one event in this step
EmitsNow(t) ==
  /\ tasks'[t] # tasks[t] /\ tasks'[t].pc # "idle"
  /\ \/ Free(t) /\ Broadcasts(tasks'[t].out) # {}
     \/ ~Free(t) /\ Broadcasts(tasks'[t].out) # Broadcasts(tasks[t].out)

\* the command of frame t has broadcast an event and has another broadcast to
\* come: a finalizing vote owes attempt:result or ranking:update, a NEXT that
\* has sent state:update owes queue:update
MidCommand(t) ==
  /\ Broadcasts(tasks[t].out) # {}
  /\ tasks[t].pc \in {"finalize", "rankings", "queue"}

\* event a is emitted before event b wherever b is emitted
EmittedBefore(out, a, b) ==
  \A j \in DOMAIN out :
    out[j].event = b => \E i \in DOMAIN out : i < j /\ out[i].event = a

\* C21: the events of one command come in a fixed order (state:update before
\* queue:update for a NEXT, attempt:result before ranking:update for a
\* finalizing vote), and no other command of the meet emits an event between
\* the first and the last event of a command.
C21_EventsInOrderNotInterleaved ==
  [][ \A t \in TaskIds :
        EmitsNow(t)
        => /\ EmittedBefore(tasks'[t].out, "state:update", "queue:update")
           /\ EmittedBefore(tasks'[t].out, "attempt:result", "ranking:update")
           /\ \A u \in TaskIds \ {t} : ~MidCommand(u) ]_vars

(***************************************************************************)
(* Specification SpecMachine: the commands of the state machine issued one *)
(* after the other, each running to its end, on the flight the director    *)
(* has chosen                                                              *)
(***************************************************************************)
MachineFlights == {1, 2, 3, 4}
MachineRegs == {e.reg_id : e \in GroupEntryRows}
JudgedStatuses == {"VALID", "INVALID"}
\* the first attempt of registration 4, which the judges can be asked to judge
\* before its group is on the platform: _handleJudgeVote takes any attemptId
EarlyAttemptId == 4

\* the attempt rows (openers of registrations 1, 4 and 5) that get INVALID as
\* well as VALID verdicts
FailedOpeners == {1, 4, 5}

\* the id of the attempt row of registration r for attempt n
MachineRowId(r, n) == r + Cardinality(MachineRegs) * (n - 1)

\* the weigh-in: attempt 1 of every registration, PENDING, at the opener
MachineAttempts ==
  [id \in MachineRegs |->
     [reg_id |-> id, lift_id |-> "MU", attempt_no |-> 1,
      weight_kg |-> OpenerRows[id]["MU"], status |-> "PENDING"]]

NoResult == [op |-> "none", threw |-> FALSE, error |-> Null, finished |-> FALSE]

InitMachine ==
  /\ \E flightId \in MachineFlights : ordIn = [flightId |-> flightId]
  /\ ordOut = NoResult
  /\ attempts = MachineAttempts
  /\ cs = ResetRow
  /\ tasks = <<>>
  /\ ncmd = 0
  /\ votes = [a \in {} |-> EmptyMap]
  /\ call = NoCall
  /\ voted = [a \in TallyAttemptIds |-> {}]

\* initialize(1, flightId, liftId) after its CurrentState.reset(): the error
\* it throws, or the row its CurrentState.update writes
initializeUpdate(flightId, liftId) ==
  LET groups == findGroupsByFlight(flightId)
      firstGroup == groups[1]
      entries == getGroupEntries(GroupEntryRows, firstGroup)
      firstAthlete == getFirstAthleteForRound1(GroupEntryRows, OpenerRows, firstGroup, liftId)
  IN IF groups = <<>> THEN [error |-> "No groups in flight", upd |-> NoUpdate]
     ELSE IF entries = <<>> THEN [error |-> "No athletes in first group", upd |-> NoUpdate]
     ELSE [error |-> Null,
           upd |-> [fields |-> DOMAIN ResetRow,
                    vals |-> [meet_id |-> 1, current_flight_id |-> flightId,
                              current_group_id |-> firstGroup,
                              current_reg_id |-> firstAthlete.reg_id,
                              current_lift_id |-> liftId, current_round |-> 1]]]

startNextRound_KeepRound(rows, state) ==
  LET upcomingOrder == getUpcomingOrder(GroupEntryRows, OpenerRows, rows,
                         state.current_group_id, state.current_lift_id,
                         state.current_round + 1)
  IN IF upcomingOrder = <<>> THEN NoUpdate
     ELSE [fields |-> {"current_reg_id"},
           vals |-> [ResetRow EXCEPT !.current_reg_id = upcomingOrder[1].reg_id]]

\* _startNextRound(state) up to its CurrentState.update: the update it is
\* about to write, or no field when it returns {finished: true}
startNextRound(rows, state) ==
  LET nextRound == state.current_round + 1
      upcomingOrder == getUpcomingOrder(GroupEntryRows, OpenerRows, rows,
                         state.current_group_id, state.current_lift_id, nextRound)
  IN IF upcomingOrder = <<>> THEN NoUpdate
     ELSE [fields |-> {"current_reg_id", "current_round"},
           vals |-> [ResetRow EXCEPT !.current_reg_id = upcomingOrder[1].reg_id,
                                     !.current_round = nextRound]]

nextUpdate_EarliestRound(rows, state) ==
  LET queue(r) == getUpcomingOrder(GroupEntryRows, OpenerRows, rows,
                    state.current_group_id, state.current_lift_id, r)
      open == {r \in 1..3 : queue(r) # <<>>}
      first == CHOOSE r \in open : \A q \in open : r <= q
  IN IF open # {}
       THEN [fields |-> {"current_reg_id", "current_round"},
             vals |-> [ResetRow EXCEPT !.current_reg_id = queue(first)[1].reg_id,
                                       !.current_round = first]]
     ELSE moveToNextGroup(state)

\* next() on an initialized state up to its CurrentState.update
nextUpdate(rows, state) ==
  LET upcomingOrder == getUpcomingOrder(GroupEntryRows, OpenerRows, rows,
                         state.current_group_id, state.current_lift_id,
                         state.current_round)
  IN IF upcomingOrder # <<>>
       THEN [fields |-> {"current_reg_id"},
             vals |-> [ResetRow EXCEPT !.current_reg_id = upcomingOrder[1].reg_id]]
     ELSE IF state.current_round < 3 THEN startNextRound(rows, state)
     ELSE moveToNextGroup(state)

\* declareWeight(regId, liftId, attemptNo, weightKg): Attempt.updateWeight on
\* the existing row, Attempt.create of a PENDING row otherwise
declareWeight(rows, regId, liftId, attemptNo, weightKg) ==
  LET existing == {id \in findByRegistrationAndLift(rows, regId, liftId) :
                     rows[id].attempt_no = attemptNo}
      attemptId == MachineRowId(regId, attemptNo)
  IN IF existing # {}
       THEN [rows EXCEPT ![CHOOSE id \in existing : TRUE].weight_kg = weightKg]
       ELSE [id \in DOMAIN rows \cup {attemptId} |->
               IF id = attemptId
                 THEN [reg_id |-> regId, lift_id |-> liftId, attempt_no |-> attemptNo,
                       weight_kg |-> weightKg, status |-> "PENDING"]
                 ELSE rows[id]]

MachineRest == <<votes, tasks, ncmd, call, voted, ordIn>>

\* stateMachine.initialize(1, flightId, liftId)
MachineInitialize ==
  \E i \in DOMAIN MeetTypeLifts :
    LET res == initializeUpdate(ordIn.flightId, MeetTypeLifts[i])
    IN /\ cs' = applyUpdate(ResetRow, res.upd)
       /\ ordOut' = [op |-> "initialize", threw |-> res.error # Null,
                     error |-> res.error, finished |-> FALSE]
       /\ UNCHANGED <<attempts, MachineRest>>

\* stateMachine.next()
MachineNext ==
  LET idle == cs.current_flight_id = NullId \/ cs.current_lift_id = Null
      upd == nextUpdate(attempts, cs)
  IN /\ cs' = IF idle THEN cs ELSE applyUpdate(cs, upd)
     /\ ordOut' = IF idle
          THEN [op |-> "next", threw |-> TRUE,
                error |-> "State not initialized. Call initialize() first.",
                finished |-> FALSE]
          ELSE [op |-> "next", threw |-> FALSE, error |-> Null,
                finished |-> upd.fields = {}]
     /\ UNCHANGED <<attempts, MachineRest>>

\* stateMachine.reset()
MachineReset ==
  /\ cs' = ResetRow
  /\ ordOut' = [NoResult EXCEPT !.op = "reset"]
  /\ UNCHANGED <<attempts, MachineRest>>

\* the attempt rows of the registration, lift and round CurrentState points at
OnDeck ==
  {id \in DOMAIN attempts : /\ attempts[id].reg_id = cs.current_reg_id
                            /\ attempts[id].lift_id = cs.current_lift_id
                            /\ attempts[id].attempt_no = cs.current_round}

\* a complete tally: validationService.finalizeAttempt(attemptId, result) for
\* the attempt on deck, or for the early one; the judges turn down only the
\* openers of FailedOpeners
MachineFinalize ==
  \E attemptId \in OnDeck \cup {EarlyAttemptId}, result \in JudgedStatuses :
    /\ attemptId \notin FailedOpeners => result = "VALID"
    /\ attempts' = updateStatus(attempts, attemptId, result)
    /\ ordOut' = [NoResult EXCEPT !.op = "finalize"]
    /\ UNCHANGED <<cs, MachineRest>>

\* stateMachine.declareWeight(regId, 'MU', attemptNo, kg) by an athlete of the
\* flight whose previous attempt has been judged: 5 kg more than that attempt
MachineDeclare ==
  \E id \in DOMAIN attempts :
    LET a == attempts[id]
    IN /\ a.status \in JudgedStatuses /\ a.attempt_no < 3
       /\ attempts' = declareWeight(attempts, a.reg_id, a.lift_id, a.attempt_no + 1,
                                    a.weight_kg + 5)
       /\ ordOut' = [NoResult EXCEPT !.op = "declare"]
       /\ UNCHANGED <<cs, MachineRest>>

NextMachine ==
  \/ MachineInitialize \/ MachineNext \/ MachineReset
  \/ MachineFinalize \/ MachineDeclare

SpecMachine == InitMachine /\ [][NextMachine]_vars

\* the state machine is not idle: next() accepts the state
Active(state) == state.current_flight_id # NullId /\ state.current_lift_id # Null

\* the entries of a group that have declared an opener for the lift
WithOpener(groupId, liftId) ==
  {e \in GroupEntryRows : e.group_id = groupId
                           /\ getOpener(OpenerRows, e.reg_id, liftId) # 0}

\* every entry of the current group has a judged attempt for round 3 of the
\* current lift
GroupDone(rows, state) ==
  \A e \in {x \in GroupEntryRows : x.group_id = state.current_group_id} :
    \E id \in DOMAIN rows :
      /\ rows[id].reg_id = e.reg_id /\ rows[id].lift_id = state.current_lift_id
      /\ rows[id].attempt_no = 3 /\ rows[id].status \in {"VALID", "INVALID"}

\* regId is first of the group by declared opener: the lowest opener, the
\* heavier athlete first among those who declared it
FirstByOpener(groupId, liftId, regId) ==
  \E e \in WithOpener(groupId, liftId) :
    /\ e.reg_id = regId
    /\ \A o \in WithOpener(groupId, liftId) :
         \/ getOpener(OpenerRows, e.reg_id, liftId) < getOpener(OpenerRows, o.reg_id, liftId)
         \/ /\ getOpener(OpenerRows, e.reg_id, liftId) = getOpener(OpenerRows, o.reg_id, liftId)
            /\ e.bodyweight_kg >= o.bodyweight_kg

\* C14: initialize fails, and leaves the machine idle, when the flight has no
\* groups or when no entry of its first group has a declared opener for the
\* lift (a first group with entries but without openers included).
C14_InitializeNotReady ==
  ordOut.op = "initialize" =>
    /\ ordOut.threw => ~Active(cs)
    /\ ~ordOut.threw =>
         /\ findGroupsByFlight(ordIn.flightId) # <<>>
         /\ WithOpener(findGroupsByFlight(ordIn.flightId)[1], cs.current_lift_id) # {}

\* C16: NEXT issued when every athlete of the current group has a finalized
\* attempt for round 3 of the current lift, and the group is not the last of
\* the flight, moves the machine to the next group by ord, round 1, the same
\* lift, on the athlete of that group who is first by declared opener.
C16_MovesToNextGroup ==
  [][(/\ ordOut'.op = "next" /\ Active(cs) /\ GroupDone(attempts, cs)
      /\ IndexOf(findGroupsByFlight(cs.current_flight_id), cs.current_group_id)
           \in 1..(Len(findGroupsByFlight(cs.current_flight_id)) - 1))
       => LET groups == findGroupsByFlight(cs.current_flight_id)
              nextGroup == groups[IndexOf(groups, cs.current_group_id) + 1]
          IN /\ cs'.current_flight_id = cs.current_flight_id
             /\ cs'.current_group_id = nextGroup
             /\ cs'.current_lift_id = cs.current_lift_id
             /\ cs'.current_round = 1
             /\ FirstByOpener(nextGroup, cs.current_lift_id, cs'.current_reg_id)]_vars

\* C17: NEXT issued when the last group of the flight has completed round 3
\* of the current lift, and the meet type has a further lift, moves the
\* machine to that lift, the first group and round 1; it does not report the
\* competition finished.
C17_MovesToNextLift ==
  [][(/\ ordOut'.op = "next" /\ Active(cs) /\ GroupDone(attempts, cs)
      /\ cs.current_round = 3
      /\ IndexOf(findGroupsByFlight(cs.current_flight_id), cs.current_group_id)
           = Len(findGroupsByFlight(cs.current_flight_id))
      /\ IndexOf(MeetTypeLifts, cs.current_lift_id) \in 1..(Len(MeetTypeLifts) - 1))
       => /\ ~ordOut'.finished
          /\ cs'.current_lift_id =
               MeetTypeLifts[IndexOf(MeetTypeLifts, cs.current_lift_id) + 1]
          /\ cs'.current_group_id = findGroupsByFlight(cs.current_flight_id)[1]
          /\ cs'.current_round = 1]_vars

\* the attempt rows of the athlete on deck for round n of the current lift
DeckAttempt(n) ==
  {id \in DOMAIN attempts : /\ attempts[id].reg_id = cs.current_reg_id
                            /\ attempts[id].lift_id = cs.current_lift_id
                            /\ attempts[id].attempt_no = n}

\* C18: in the flight with a single group and a single athlete, who declares a
\* weight for each round: initialize puts the machine on round 1; NEXT after
\* the attempt of round 1 or 2 is finalized puts it on the next round without
\* reporting the competition finished; NEXT after the attempt of round 3 is
\* finalized reports it finished.  So the third NEXT is the first to do so.
C18_ThreeRounds ==
  [][/\ (ordOut'.op = "initialize" /\ ordIn.flightId = 3 /\ ~ordOut'.threw)
          => cs'.current_round = 1 /\ cs'.current_reg_id = 5
     /\ (/\ ordOut'.op = "next" /\ ordIn.flightId = 3 /\ Active(cs)
         /\ \E id \in DeckAttempt(cs.current_round) :
              attempts[id].status \in {"VALID", "INVALID"}
         /\ cs.current_round < 3 =>
              \E id \in DeckAttempt(cs.current_round + 1) :
                attempts[id].status = "PENDING" /\ attempts[id].weight_kg > 0)
          => IF cs.current_round < 3
               THEN /\ ~ordOut'.finished
                    /\ cs' = [cs EXCEPT !.current_round = @ + 1]
               ELSE ordOut'.finished /\ cs' = cs]_vars

\* the third NEXT of the single athlete's flight has reported it finished
C18_Witness ==
  /\ ordIn.flightId = 3 /\ ordOut.op = "next" /\ ordOut.finished
  /\ cs.current_round = 3 /\ cs.current_reg_id = 5
  /\ \A n \in 1..3 : \E id \in DeckAttempt(n) : attempts[id].status \in {"VALID", "INVALID"}

\* C20: two consecutive NEXT commands, with no attempt finalized and no weight
\* declared in between, leave CurrentState as the first one left it; once NEXT
\* has reported the competition finished, the following NEXT reports it again.
C20_NextIdempotent ==
  [][(ordOut.op = "next" /\ ordOut'.op = "next")
       => /\ cs' = cs
          /\ ordOut.finished => ordOut'.finished]_vars

(***************************************************************************)
(* Specification SpecOrder: getUpcomingOrder on every small store          *)
(***************************************************************************)
OrderRegs == 1..MaxEntries
OrderGroupIds == {1, 2}
OrderRounds == {1, 2}
Bodyweights == {70, 80}
DeclaredWeights == {100, 105}

\* what a registration has on record for the round asked about: nothing, a
\* declared weight not yet lifted, or an attempt already judged
Declarations ==
  {[status |-> "NONE", weight_kg |-> 0], [status |-> "VALID", weight_kg |-> 100]}
    \cup {[status |-> "PENDING", weight_kg |-> w] : w \in DeclaredWeights}

NoQuery == [asked |-> FALSE, groupId |-> NullId, queue |-> <<>>]

\* group 1 holds every registration, in any start order (start_ord is UNIQUE
\* in a group, and so is reg_id); registration 1 is also entered in group 2.
\* Round 1 reads the weight from the openers, later rounds from the attempt row.
InitOrder ==
  /\ \E ord \in Permutations(OrderRegs), bw \in [OrderRegs -> Bodyweights],
        d \in [OrderRegs -> Declarations], round \in OrderRounds :
       LET declared == {r \in OrderRegs : d[r].status # "NONE"}
       IN ordIn =
            [entries |->
               {[group_id |-> 1, reg_id |-> r, start_ord |-> ord[r],
                 bodyweight_kg |-> bw[r]] : r \in OrderRegs}
               \cup {[group_id |-> 2, reg_id |-> 1, start_ord |-> 1,
                      bodyweight_kg |-> bw[1]]},
             openers |-> [r \in declared |-> [l \in LiftIds |-> d[r].weight_kg]],
             rows |-> [id \in declared |->
                         [reg_id |-> id, lift_id |-> "MU", attempt_no |-> round,
                          weight_kg |-> d[id].weight_kg, status |-> d[id].status]],
             decl |-> d,
             liftId |-> "MU",
             round |-> round]
  /\ ordOut = NoQuery
  /\ votes = [a \in {} |-> EmptyMap]
  /\ call = NoCall
  /\ voted = [a \in TallyAttemptIds |-> {}]
  /\ IdleStore

\* stateMachine.getUpcomingOrder(groupId, liftId, round)
OrderQuery ==
  \E groupId \in OrderGroupIds :
    /\ ordOut' = [asked |-> TRUE, groupId |-> groupId,
                  queue |-> getUpcomingOrder(ordIn.entries, ordIn.openers, ordIn.rows,
                                             groupId, ordIn.liftId, ordIn.round)]
    /\ UNCHANGED <<votes, attempts, cs, tasks, ncmd, call, voted, ordIn>>

SpecOrder == InitOrder /\ [][OrderQuery]_vars

\* a sorts strictly before b: declared weight ascending, then bodyweight
\* descending, then start_ord ascending
SortsBefore(a, b) ==
  \/ a.declaredWeight < b.declaredWeight
  \/ /\ a.declaredWeight = b.declaredWeight
     /\ \/ a.bodyweight_kg > b.bodyweight_kg
        \/ a.bodyweight_kg = b.bodyweight_kg /\ a.start_ord < b.start_ord

\* C10: for any group, lift and round, getUpcomingOrder returns registrations
\* entered in the group, each at most once, with the weight they declared,
\* sorted by declared weight ascending, then bodyweight descending, then
\* start_ord ascending (so a tie on weight and bodyweight is in start_ord order).
C10_QueueSorted ==
  ordOut.asked =>
    LET q == ordOut.queue
    IN /\ \A i, j \in DOMAIN q : i < j => q[i].reg_id # q[j].reg_id
       /\ \A i, j \in DOMAIN q : i < j => SortsBefore(q[i], q[j])
       /\ \A i \in DOMAIN q :
            /\ \E e \in ordIn.entries :
                 /\ e.group_id = ordOut.groupId /\ e.reg_id = q[i].reg_id
                 /\ e.start_ord = q[i].start_ord /\ e.bodyweight_kg = q[i].bodyweight_kg
            /\ ordIn.decl[q[i].reg_id].status = "PENDING"
            /\ q[i].declaredWeight = ordIn.decl[q[i].reg_id].weight_kg

C10_Witness ==
  /\ ordOut.asked /\ ordIn.round = 2
  /\ \E i \in DOMAIN ordOut.queue :
       /\ i + 1 \in DOMAIN ordOut.queue
       /\ ordOut.queue[i].declaredWeight = ordOut.queue[i + 1].declaredWeight
       /\ ordOut.queue[i].bodyweight_kg = ordOut.queue[i + 1].bodyweight_kg
       /\ ordOut.queue[i].reg_id > ordOut.queue[i + 1].reg_id


(***************************************************************************)
(* Specification SpecStore: getUpcomingOrder on stores where the openers   *)
(* and the attempt rows of rounds 1 and 2 are independent of each other    *)
(***************************************************************************)
StoreRegs == 1..MaxStoreRegs
StoreRounds == {1, 2}
\* registration_maxes: 0 stands for no declared opener
StoreOpeners == {0, 105}
\* the attempt row of round 1: none, or the weigh-in row in any status
FirstRows ==
  {[status |-> "NONE", weight_kg |-> 0], [status |-> "PENDING", weight_kg |-> 100],
   [status |-> "VALID", weight_kg |-> 100], [status |-> "INVALID", weight_kg |-> 100]}
\* the attempt row of round 2: none, declared (0 kg included), or judged
SecondRows ==
  {[status |-> "NONE", weight_kg |-> 0], [status |-> "PENDING", weight_kg |-> 0],
   [status |-> "PENDING", weight_kg |-> 110], [status |-> "VALID", weight_kg |-> 110],
   [status |-> "INVALID", weight_kg |-> 110]}

\* the id of the attempt row of registration r for attempt n
StoreRowId(r, n) == 2 * (r - 1) + n

\* group 1 holds every registration in reg_id order; heavier registrations
\* have the higher reg_id
InitStore ==
  /\ \E op \in [StoreRegs -> StoreOpeners], a1 \in [StoreRegs -> FirstRows],
        a2 \in [StoreRegs -> SecondRows] :
       LET row(r, n) == IF n = 1 THEN a1[r] ELSE a2[r]
           have == {<<r, n>> \in StoreRegs \X StoreRounds : row(r, n).status # "NONE"}
       IN ordIn =
            [entries |-> {[group_id |-> 1, reg_id |-> r, start_ord |-> r,
                           bodyweight_kg |-> 70 + 5 * r] : r \in StoreRegs},
             openers |-> [r \in {x \in StoreRegs : op[x] # 0} |->
                            [l \in LiftIds |-> op[r]]],
             rows |-> [id \in {StoreRowId(p[1], p[2]) : p \in have} |->
                         LET p == CHOOSE q \in have : StoreRowId(q[1], q[2]) = id
                         IN [reg_id |-> p[1], lift_id |-> "MU", attempt_no |-> p[2],
                             weight_kg |-> row(p[1], p[2]).weight_kg,
                             status |-> row(p[1], p[2]).status]],
             liftId |-> "MU"]
  /\ ordOut = [asked |-> FALSE, round |-> 1, queue |-> <<>>]
  /\ votes = [a \in {} |-> EmptyMap]
  /\ call = NoCall
  /\ voted = [a \in TallyAttemptIds |-> {}]
  /\ IdleStore

\* stateMachine.getUpcomingOrder(1, liftId, round)
StoreQuery ==
  \E round \in StoreRounds :
    /\ ordOut' = [asked |-> TRUE, round |-> round,
                  queue |-> getUpcomingOrder(ordIn.entries, ordIn.openers, ordIn.rows,
                                             1, ordIn.liftId, round)]
    /\ UNCHANGED <<votes, attempts, cs, tasks, ncmd, call, voted, ordIn>>

SpecStore == InitStore /\ [][StoreQuery]_vars


\* the attempt rows of registration r for the lift and attempt n
StoreAttempt(r, n) ==
  {id \in DOMAIN ordIn.rows : /\ ordIn.rows[id].reg_id = r
                              /\ ordIn.rows[id].lift_id = ordIn.liftId
                              /\ ordIn.rows[id].attempt_no = n}

\* what registration r has declared for round n: the opener in round 1, the
\* weight of its attempt row n afterwards; 0 when there is none
StoreDeclared(r, n) ==
  IF n = 1
    THEN IF r \in DOMAIN ordIn.openers THEN ordIn.openers[r][ordIn.liftId] ELSE 0
    ELSE IF StoreAttempt(r, n) = {} THEN 0
         ELSE ordIn.rows[CHOOSE id \in StoreAttempt(r, n) : TRUE].weight_kg

StoreFinalized(r, n) ==
  \E id \in StoreAttempt(r, n) : ordIn.rows[id].status \in {"VALID", "INVALID"}

\* C11: the queue of a round holds exactly the entries of the group that have
\* no VALID or INVALID attempt row for that round and a non-zero declared
\* weight for it, the opener in round 1 and the weight of the attempt row of
\* that round afterwards; everybody else is absent from the queue.
C11_QueueMembers ==
  ordOut.asked =>
    LET q == ordOut.queue
        n == ordOut.round
    IN /\ {q[i].reg_id : i \in DOMAIN q} =
            {e.reg_id : e \in {x \in ordIn.entries :
                                 /\ x.group_id = 1
                                 /\ ~StoreFinalized(x.reg_id, n)
                                 /\ StoreDeclared(x.reg_id, n) # 0}}
       /\ \A i \in DOMAIN q : q[i].declaredWeight = StoreDeclared(q[i].reg_id, n)

\* round 2: one registration without an opener is queued with the weight of
\* its attempt row, another with an opener and a 0 kg row is deferred
C11_Witness ==
  /\ ordOut.asked /\ ordOut.round = 2
  /\ \E i \in DOMAIN ordOut.queue :
       /\ ordOut.queue[i].reg_id \notin DOMAIN ordIn.openers
       /\ ordOut.queue[i].declaredWeight = 110
  /\ \E r \in DOMAIN ordIn.openers :
       /\ StoreAttempt(r, 2) # {} /\ StoreDeclared(r, 2) = 0
       /\ \A i \in DOMAIN ordOut.queue : ordOut.queue[i].reg_id # r

\* the judged attempt rows of the rounds before the one asked about
EarlierJudged ==
  {id \in DOMAIN ordIn.rows : /\ ordIn.rows[id].attempt_no < ordOut.round
                              /\ ordIn.rows[id].status \in {"VALID", "INVALID"}}

\* C12: the queue does not depend on the outcomes of earlier attempts: a store
\* that differs only in whether attempts of earlier rounds are VALID or
\* INVALID yields the same queue.
C12_OutcomeIndependent ==
  ordOut.asked =>
    \A outcome \in [EarlierJudged -> {"VALID", "INVALID"}] :
      getUpcomingOrder(ordIn.entries, ordIn.openers,
                       [id \in DOMAIN ordIn.rows |->
                          IF id \in EarlierJudged
                            THEN [ordIn.rows[id] EXCEPT !.status = outcome[id]]
                            ELSE ordIn.rows[id]],
                       1, ordIn.liftId, ordOut.round) = ordOut.queue

\* round 2 with two registrations queued, one after a VALID and one after an
\* INVALID first attempt
C12_Witness ==
  /\ ordOut.asked /\ ordOut.round = 2
  /\ \E i, j \in DOMAIN ordOut.queue :
       /\ \E id \in StoreAttempt(ordOut.queue[i].reg_id, 1) : ordIn.rows[id].status = "VALID"
       /\ \E id \in StoreAttempt(ordOut.queue[j].reg_id, 1) : ordIn.rows[id].status = "INVALID"


(***************************************************************************)
(* SocketService, one command at a time: the sessions join their rooms     *)
(* with the join handlers, and every handler runs to its end before the    *)
(* next event is handled.  ordIn holds the sessions (what socket.join and  *)
(* socket.data recorded), ordOut the last command and the events it        *)
(* emitted.                                                                *)
(***************************************************************************)
BrokerSockets == {"a", "b"}
\* the role a client sends with join:judge
JoinRoles == {"HEAD", "RIGHT"}
\* the attempt and weight a client sends with regista:updateWeight: the
\* attempt on deck (PENDING) and a judged one
WeightAttemptInputs == {1, 2}
WeightInputs == {100}
TimerSeconds == 60

\* a connected socket before any join: no room, socket.data = {}
NoSession == [rooms |-> {}, judgeRole |-> Null, meetId |-> Null]

\* _handleJoinMeet(socket, {meetId: 1})
joinMeet(sess) == [sess EXCEPT !.rooms = @ \cup {"meet_1"}]
\* _handleJoinJudge(socket, {meetId: 1, judgeId, role})
joinJudge(sess, role) ==
  [sess EXCEPT !.rooms = @ \cup {"meet_1", "judges_1"}, !.judgeRole = role,
               !.meetId = "1"]
\* _handleJoinRegista(socket, {meetId: 1})
joinRegista(sess) ==
  [sess EXCEPT !.rooms = @ \cup {"meet_1", "regista_1"}, !.meetId = "1"]
\* _handleJoinViewer(socket, {meetId: 1})
joinViewer(sess) == [sess EXCEPT !.rooms = @ \cup {"meet_1", "viewers_1"}]

\* `meet_${meetId}`, `regista_${meetId}` with the meetId of socket.data
meetRoomOf(sess) == IF sess.meetId = Null THEN "meet_undefined" ELSE "meet_1"
registaRoomOf(sess) ==
  IF sess.meetId = Null THEN "regista_undefined" ELSE "regista_1"

\* Attempt.updateWeight(id, weightKg): UPDATE attempts SET weight_kg = ? WHERE id = ?
updateWeight(rows, id, weightKg) ==
  IF id \in DOMAIN rows THEN [rows EXCEPT ![id].weight_kg = weightKg] ELSE rows

NoCommand == [socket |-> Null, cmd |-> Null, out |-> <<>>]

InitBroker ==
  /\ ordIn = [s \in BrokerSockets |-> NoSession]
  /\ ordOut = NoCommand
  /\ votes \in {EmptyMap, TwoVotesIn}
  /\ attempts = LiftedAttempts
  /\ cs = LiftedRow
  /\ tasks = <<>>
  /\ ncmd = 0
  /\ call = NoCall
  /\ voted = [a \in TallyAttemptIds |-> {}]

BrokerRest == <<tasks, call, voted>>

BrokerJoinMeet ==
  \E s \in BrokerSockets :
    /\ ordIn' = [ordIn EXCEPT ![s] = joinMeet(@)]
    /\ UNCHANGED <<votes, attempts, cs, ncmd, ordOut, BrokerRest>>

BrokerJoinJudge ==
  \E s \in BrokerSockets, role \in JoinRoles :
    /\ ordIn' = [ordIn EXCEPT ![s] = joinJudge(@, role)]
    /\ UNCHANGED <<votes, attempts, cs, ncmd, ordOut, BrokerRest>>

BrokerJoinRegista ==
  \E s \in BrokerSockets :
    /\ ordIn' = [ordIn EXCEPT ![s] = joinRegista(@)]
    /\ UNCHANGED <<votes, attempts, cs, ncmd, ordOut, BrokerRest>>

BrokerJoinViewer ==
  \E s \in BrokerSockets :
    /\ ordIn' = [ordIn EXCEPT ![s] = joinViewer(@)]
    /\ UNCHANGED <<votes, attempts, cs, ncmd, ordOut, BrokerRest>>

CanCommand == ncmd < MaxBrokerCommands

\* _handleJudgeVote(socket, {attemptId, vote}); dbOk is whether the status
\* write of finalizeAttempt resolves (database-local.js run() rejects with the
\* error of sqlite otherwise)
BrokerVote ==
  \E s \in BrokerSockets, a \in AttemptInputs, v \in VoteInputs, dbOk \in BOOLEAN :
    LET sess == ordIn[s]
        judgeRole == sess.judgeRole
        res == registerVote(votes, a, judgeRole, v)
        received ==
          [NoEvent EXCEPT !.to = registaRoomOf(sess), !.event = "vote:received",
                          !.attemptId = a, !.judgeRole = judgeRole, !.vote = v,
                          !.voteCount = IF res.ret.isComplete THEN 3
                                        ELSE getVoteCount(res.votes, a)]
        result ==
          [NoEvent EXCEPT !.to = meetRoomOf(sess), !.event = "attempt:result",
                          !.attemptId = a, !.result = res.ret.result,
                          !.votes = res.ret.votes]
        ranking ==
          [NoEvent EXCEPT !.to = meetRoomOf(sess), !.event = "ranking:update",
                          !.state = cs]
        confirmed ==
          [NoEvent EXCEPT !.to = SocketRoom(s), !.event = "vote:confirmed",
                          !.attemptId = a, !.vote = v]
        record(out) == [socket |-> s, cmd |-> "judge:vote", out |-> out]
    IN /\ CanCommand
       /\ ncmd' = ncmd + 1
       /\ IF judgeRole = Null
            THEN /\ votes' = votes /\ attempts' = attempts
                 /\ ordOut' = record(<<ErrorEvent(s, "Not authenticated as judge")>>)
          ELSE IF res.threw
            THEN /\ votes' = res.votes /\ attempts' = attempts
                 /\ ordOut' = record(<<ErrorEvent(s, res.error)>>)
          ELSE IF ~res.ret.isComplete
            THEN /\ votes' = res.votes /\ attempts' = attempts
                 /\ ordOut' = record(<<received, confirmed>>)
          ELSE IF ~dbOk
            THEN /\ votes' = res.votes /\ attempts' = attempts
                 /\ ordOut' = record(<<received, ErrorEvent(s, "SQLITE_ERROR")>>)
          ELSE /\ votes' = clearVotes(res.votes, a)
               /\ attempts' = updateStatus(attempts, a, res.ret.result)
               /\ ordOut' = record(<<received, result, ranking, confirmed>>)
       /\ UNCHANGED <<cs, ordIn, BrokerRest>>

\* _handleRegistaNext(socket, data)
BrokerNext ==
  \E s \in BrokerSockets :
    LET sess == ordIn[s]
        idle == cs.current_flight_id = NullId \/ cs.current_lift_id = Null
        upd == nextUpdate(attempts, cs)
        newState == applyUpdate(cs, upd)
        update == [NoEvent EXCEPT !.to = meetRoomOf(sess), !.event = "state:update",
                                  !.state = newState]
        queue ==
          [NoEvent EXCEPT !.to = registaRoomOf(sess), !.event = "queue:update",
             !.queue = getUpcomingOrder(GroupEntryRows, OpenerRows, attempts,
                         newState.current_group_id, newState.current_lift_id,
                         newState.current_round)]
        finished == [NoEvent EXCEPT !.to = meetRoomOf(sess),
                       !.event = "competition:finished",
                       !.message = "Competition completed for this group"]
        record(out) == [socket |-> s, cmd |-> "regista:next", out |-> out]
    IN /\ CanCommand
       /\ ncmd' = ncmd + 1
       /\ IF idle
            THEN /\ cs' = cs
                 /\ ordOut' = record(<<ErrorEvent(s,
                                 "State not initialized. Call initialize() first.")>>)
          ELSE IF upd.fields = {}
            THEN /\ cs' = cs /\ ordOut' = record(<<finished>>)
          ELSE /\ cs' = newState /\ ordOut' = record(<<update, queue>>)
       /\ UNCHANGED <<votes, attempts, ordIn, BrokerRest>>

\* _handleUpdateWeight(socket, {attemptId, weightKg})
BrokerUpdateWeight ==
  \E s \in BrokerSockets, a \in WeightAttemptInputs, w \in WeightInputs :
    LET updated == [NoEvent EXCEPT !.to = meetRoomOf(ordIn[s]),
                      !.event = "weight:updated", !.attemptId = a, !.weightKg = w]
    IN /\ CanCommand
       /\ ncmd' = ncmd + 1
       /\ attempts' = updateWeight(attempts, a, w)
       /\ ordOut' = [socket |-> s, cmd |-> "regista:updateWeight", out |-> <<updated>>]
       /\ UNCHANGED <<votes, cs, ordIn, BrokerRest>>

\* _handleTimerStart(socket, {}): seconds defaults to 60 (startTime, the
\* clock of the server, is left out of the event)
BrokerTimerStart ==
  \E s \in BrokerSockets :
    LET started == [NoEvent EXCEPT !.to = meetRoomOf(ordIn[s]),
                      !.event = "timer:started", !.seconds = TimerSeconds]
    IN /\ CanCommand
       /\ ncmd' = ncmd + 1
       /\ ordOut' = [socket |-> s, cmd |-> "timer:start", out |-> <<started>>]
       /\ UNCHANGED <<votes, attempts, cs, ordIn, BrokerRest>>

\* _handleTimerStop(socket, data)
BrokerTimerStop ==
  \E s \in BrokerSockets :
    LET stopped == [NoEvent EXCEPT !.to = meetRoomOf(ordIn[s]),
                      !.event = "timer:stopped"]
    IN /\ CanCommand
       /\ ncmd' = ncmd + 1
       /\ ordOut' = [socket |-> s, cmd |-> "timer:stop", out |-> <<stopped>>]
       /\ UNCHANGED <<votes, attempts, cs, ordIn, BrokerRest>>

NextBroker ==
  \/ BrokerJoinMeet \/ BrokerJoinJudge \/ BrokerJoinRegista \/ BrokerJoinViewer
  \/ BrokerVote \/ BrokerNext \/ BrokerUpdateWeight
  \/ BrokerTimerStart \/ BrokerTimerStop

SpecBroker == InitBroker /\ [][NextBroker]_vars


\* the commands of the director
DirectorCommands ==
  {"regista:next", "regista:updateWeight", "timer:start", "timer:stop"}

\* the session joined as director: _handleJoinRegista ran for it
JoinedAsDirector(sess) == "regista_1" \in sess.rooms

\* this step handles a command of the set sent by a session that did not join
\* as director
ForeignCommand(cmds) ==
  /\ ncmd' = ncmd + 1
  /\ ordOut'.cmd \in cmds
  /\ ~JoinedAsDirector(ordIn[ordOut'.socket])

Rejected(out) == \E i \in DOMAIN out : out[i].event = "error"

\* C22: NEXT, weight-declare, timer-start and timer-stop take effect only
\* when sent by a session that joined as director: sent by any other session
\* the command is rejected, changes neither CurrentState nor any attempt, and
\* causes no broadcast.
C22_DirectorOnly ==
  [][ ForeignCommand(DirectorCommands)
      => /\ Rejected(ordOut'.out)
         /\ cs' = cs /\ attempts' = attempts
         /\ Broadcasts(ordOut'.out) = {} ]_vars


(***************************************************************************)
(* server.js: the Socket.IO handlers the server registers itself (it does  *)
(* not call socketService.initialize).  The handlers are synchronous.      *)
(* ordIn holds the rooms of every socket and connectedClients, ordOut the  *)
(* last event handled and what it emitted.                                 *)
(***************************************************************************)
ServerSockets == {"a", "b"}
JudgeIds == {1, 2}
\* the data a client sends with judge:vote and regista:next
ServerVoteData == [meetId : {"1"}, attemptId : {2}, vote : Votes]
ServerNextData == [meetId : {"1"}]

NoClients == [judges |-> EmptyMap, regista |-> Null, viewers |-> {}]

InitServer ==
  /\ ordIn = [rooms |-> [s \in ServerSockets |-> {}], connectedClients |-> NoClients]
  /\ ordOut = NoCommand
  /\ votes = EmptyMap
  /\ attempts = LiftedAttempts
  /\ cs = LiftedRow
  /\ tasks = <<>>
  /\ ncmd = 0
  /\ call = NoCall
  /\ voted = [a \in TallyAttemptIds |-> {}]

ServerRest == <<votes, attempts, cs, tasks, ncmd, call, voted>>

\* socket.on('judge:connect')
ServerJudgeConnect ==
  \E s \in ServerSockets, judgeId \in JudgeIds, role \in Roles :
    LET connected == [NoEvent EXCEPT !.to = "regista", !.event = "judge:connected",
                                     !.judgeRole = role]
    IN /\ ordIn' = [rooms |-> [ordIn.rooms EXCEPT ![s] = @ \cup {"meet_1", "judges"}],
                    connectedClients |->
                      [ordIn.connectedClients EXCEPT !.judges = MapSet(@, judgeId, s)]]
       /\ ordOut' = [socket |-> s, cmd |-> "judge:connect", out |-> <<connected>>]
       /\ UNCHANGED ServerRest

\* socket.on('regista:connect')
ServerRegistaConnect ==
  \E s \in ServerSockets :
    /\ ordIn' = [rooms |-> [ordIn.rooms EXCEPT ![s] = @ \cup {"meet_1", "regista"}],
                 connectedClients |-> [ordIn.connectedClients EXCEPT !.regista = s]]
    /\ ordOut' = [socket |-> s, cmd |-> "regista:connect", out |-> <<>>]
    /\ UNCHANGED ServerRest

\* socket.on('viewer:connect')
ServerViewerConnect ==
  \E s \in ServerSockets :
    /\ ordIn' = [rooms |-> [ordIn.rooms EXCEPT ![s] = @ \cup {"meet_1", "viewers"}],
                 connectedClients |->
                   [ordIn.connectedClients EXCEPT !.viewers = @ \cup {s}]]
    /\ ordOut' = [socket |-> s, cmd |-> "viewer:connect", out |-> <<>>]
    /\ UNCHANGED ServerRest

\* socket.on('judge:vote'): io.to(`meet_${data.meetId}`).emit('vote:received', data)
ServerJudgeVote ==
  \E s \in ServerSockets, data \in ServerVoteData :
    LET received == [NoEvent EXCEPT !.to = "meet_1", !.event = "vote:received",
                                    !.attemptId = data.attemptId, !.vote = data.vote]
    IN /\ ordOut' = [socket |-> s, cmd |-> "judge:vote", out |-> <<received>>]
       /\ UNCHANGED <<ordIn, ServerRest>>

\* socket.on('regista:next'): io.to(`meet_${data.meetId}`).emit('state:updated', data)
ServerRegistaNext ==
  \E s \in ServerSockets, data \in ServerNextData :
    LET updated == [NoEvent EXCEPT !.to = "meet_1", !.event = "state:updated"]
    IN /\ ordOut' = [socket |-> s, cmd |-> "regista:next", out |-> <<updated>>]
       /\ UNCHANGED <<ordIn, ServerRest>>

\* socket.on('disconnect'): the socket has left its rooms; the first judge id
\* mapped to it is deleted and announced, regista and viewers are cleaned
ServerDisconnect ==
  \E s \in ServerSockets :
    LET cc == ordIn.connectedClients
        mine == {j \in DOMAIN cc.judges : cc.judges[j] = s}
        first == CHOOSE j \in mine : \A k \in mine : j <= k
        gone == [NoEvent EXCEPT !.to = "regista", !.event = "judge:disconnected",
                                !.attemptId = first]
    IN /\ ordIn' =
            [rooms |-> [ordIn.rooms EXCEPT ![s] = {}],
             connectedClients |->
               [judges |-> IF mine = {} THEN cc.judges ELSE MapDelete(cc.judges, first),
                regista |-> IF cc.regista = s THEN Null ELSE cc.regista,
                viewers |-> cc.viewers \ {s}]]
       /\ ordOut' = [socket |-> s, cmd |-> "disconnect",
                     out |-> IF mine = {} THEN <<>> ELSE <<gone>>]
       /\ UNCHANGED ServerRest

NextServer ==
  \/ ServerJudgeConnect \/ ServerRegistaConnect \/ ServerViewerConnect
  \/ ServerJudgeVote \/ ServerRegistaNext \/ ServerDisconnect

SpecServer == InitServer /\ [][NextServer]_vars

\* the sockets io.to(room).emit reaches, or the one socket of socket.emit
Recipients(rooms, to) ==
  {s \in DOMAIN rooms : to \in rooms[s]} \cup (DOMAIN rooms \cap {to})

\* the events that show a judge's vote or the count of the tally
RevealsVote(e) == e.event = "vote:received"

\* C23: a vote is accepted only from a session that joined as a judge with a
\* role, and no event that reveals a judge's vote or the tally count of an
\* incomplete tally is delivered to a judge session other than the caster.
C23_VotesHiddenFromJudges ==
  [][ (ordOut' # ordOut /\ ordOut'.cmd = "judge:vote")
      => LET s == ordOut'.socket
             out == ordOut'.out
         IN /\ (\E i \in DOMAIN out : out[i].event = "vote:received")
                 => "judges" \in ordIn.rooms[s]
            /\ \A i \in DOMAIN out, j \in DOMAIN ordIn.rooms \ {s} :
                 (RevealsVote(out[i]) /\ "judges" \in ordIn.rooms[j])
                   => j \notin Recipients(ordIn.rooms, out[i].to) ]_vars


\* the events a vote, NEXT or weight command broadcasts
CommandBroadcasts ==
  {"vote:received", "attempt:result", "ranking:update", "state:update",
   "queue:update", "weight:updated"}

\* C24: broadcasts happen only for commands that succeed: when the
\* originating session of a vote, NEXT or weight command receives an error for
\* it, none of vote:received, attempt:result, ranking:update, state:update,
\* queue:update, weight:updated was broadcast on behalf of that command.
C24_BroadcastOnlyOnSuccess ==
  (/\ ordOut.cmd \in {"judge:vote", "regista:next", "regista:updateWeight"}
   /\ \E i \in DOMAIN ordOut.out :
        ordOut.out[i].event = "error" /\ ordOut.out[i].to = ordOut.socket)
  => \A i \in DOMAIN ordOut.out : ordOut.out[i].event \notin CommandBroadcasts


(***************************************************************************)
(* StateMachine.declareWeight and updateAttemptWeight on the attempt store, *)
(* one call at a time, with whatever arguments a caller passes.  ordOut is *)
(* the last call and how it returned.                                      *)
(***************************************************************************)
\* the registration the calls are about, and one that is left alone
DeclareRegs == {1}
BystanderRegs == {2}
\* attempt_no and weightKg a caller passes
DeclareAttemptNos == 0..5
DeclareWeights == {100}
\* the attempt ids a caller passes to updateAttemptWeight, to finalizeAttempt
DeclareAttemptIds == {MachineRowId(r, n) : r \in DeclareRegs, n \in {1, 2}}

\* CHECK (attempt_no BETWEEN 1 AND 4) of table attempts
AttemptNoCheck(attemptNo) == attemptNo >= 1 /\ attemptNo <= 4

NoDeclare ==
  [op |-> "none", regId |-> NullId, attemptNo |-> 0, weightKg |-> 0,
   attemptId |-> NullId, threw |-> FALSE]

\* after the weigh-in: the openers of the two registrations, PENDING
InitDeclare ==
  /\ attempts = [id \in DeclareRegs \cup BystanderRegs |-> MachineAttempts[id]]
  /\ ordOut = NoDeclare
  /\ ordIn = <<>>
  /\ cs = ResetRow
  /\ tasks = <<>>
  /\ ncmd = 0
  /\ votes = EmptyMap
  /\ call = NoCall
  /\ voted = [a \in TallyAttemptIds |-> {}]

DeclareRest == <<votes, cs, tasks, ncmd, call, voted, ordIn>>

\* the rows of (regId, liftId) with this attempt_no
findAttemptNo(rows, regId, liftId, attemptNo) ==
  {id \in findByRegistrationAndLift(rows, regId, liftId) :
     rows[id].attempt_no = attemptNo}

\* stateMachine.declareWeight(regId, 'MU', attemptNo, weightKg): the INSERT of
\* Attempt.create fails on the CHECK of attempt_no, and the call throws
DeclareWeight ==
  \E regId \in DeclareRegs, attemptNo \in DeclareAttemptNos, w \in DeclareWeights :
    LET existing == findAttemptNo(attempts, regId, "MU", attemptNo)
        threw == existing = {} /\ ~AttemptNoCheck(attemptNo)
        rows == declareWeight(attempts, regId, "MU", attemptNo, w)
    IN /\ attempts' = IF threw THEN attempts ELSE rows
       /\ ordOut' = [op |-> "declareWeight", regId |-> regId, attemptNo |-> attemptNo,
                     weightKg |-> w,
                     attemptId |-> IF threw THEN NullId
                                   ELSE CHOOSE id \in findAttemptNo(rows, regId, "MU",
                                                                    attemptNo) : TRUE,
                     threw |-> threw]
       /\ UNCHANGED DeclareRest

\* stateMachine.updateAttemptWeight(attemptId, weightKg)
UpdateAttemptWeight ==
  \E id \in DeclareAttemptIds, w \in DeclareWeights :
    /\ attempts' = updateWeight(attempts, id, w)
    /\ ordOut' = [NoDeclare EXCEPT !.op = "updateAttemptWeight", !.attemptId = id,
                                   !.weightKg = w]
    /\ UNCHANGED DeclareRest

\* a complete tally on a PENDING attempt of the registration:
\* validationService.finalizeAttempt(attemptId, result)
DeclareFinalize ==
  \E id \in DOMAIN attempts, result \in JudgedStatuses :
    /\ attempts[id].reg_id \in DeclareRegs /\ attempts[id].status = "PENDING"
    /\ attempts' = updateStatus(attempts, id, result)
    /\ ordOut' = [NoDeclare EXCEPT !.op = "finalizeAttempt", !.attemptId = id]
    /\ UNCHANGED DeclareRest

NextDeclare == DeclareWeight \/ UpdateAttemptWeight \/ DeclareFinalize

SpecDeclare == InitDeclare /\ [][NextDeclare]_vars

WeightOps == {"declareWeight", "updateAttemptWeight"}

\* C25: the declared weight of an attempt changes only while it is PENDING:
\* declareWeight or updateAttemptWeight aimed at an attempt that is VALID or
\* INVALID is rejected and leaves its weight and status unchanged.
C25_WeightOnlyWhilePending ==
  [][ \A id \in DOMAIN attempts :
        (attempts[id].status \in JudgedStatuses /\ ordOut'.op \in WeightOps)
        => /\ attempts'[id] = attempts[id]
           /\ (\/ ordOut'.attemptId = id
               \/ /\ ordOut'.op = "declareWeight"
                  /\ id \in findAttemptNo(attempts, ordOut'.regId, "MU",
                                          ordOut'.attemptNo))
              => ordOut'.threw ]_vars

\* attempt n > 1 of a registration and lift is there only if attempt n - 1 is
\* there and has been judged; every attempt_no is in 1..4
Sequenced(rows) ==
  \A id \in DOMAIN rows :
    /\ AttemptNoCheck(rows[id].attempt_no)
    /\ rows[id].attempt_no > 1
       => \E p \in findAttemptNo(rows, rows[id].reg_id, rows[id].lift_id,
                                 rows[id].attempt_no - 1) :
            rows[p].status \in JudgedStatuses

\* C26: every attempt has attempt_no in 1..4, attempt n > 1 exists only if
\* attempt n - 1 of the same registration and lift exists and is VALID or
\* INVALID, and a declareWeight that would break this, or with attempt_no
\* outside 1..4, is rejected.
C26_AttemptsInSequence ==
  [][ /\ Sequenced(attempts')
      /\ (/\ ordOut'.op = "declareWeight"
          /\ \/ ~AttemptNoCheck(ordOut'.attemptNo)
             \/ /\ findAttemptNo(attempts, ordOut'.regId, "MU", ordOut'.attemptNo) = {}
                /\ ordOut'.attemptNo > 1
                /\ \A p \in findAttemptNo(attempts, ordOut'.regId, "MU",
                                          ordOut'.attemptNo - 1) :
                     attempts[p].status = "PENDING")
         => ordOut'.threw ]_vars

\* C27: after declareWeight(reg, lift, k, w) has returned, the attempts of
\* (reg, lift) hold exactly one entry with attempt_no = k, and it has weight w
\* and status PENDING.
C27_DeclaredIsPending ==
  (ordOut.op = "declareWeight" /\ ~ordOut.threw)
  => LET found == findAttemptNo(attempts, ordOut.regId, "MU", ordOut.attemptNo)
     IN /\ Cardinality(found) = 1
        /\ \A id \in found : /\ attempts[id].weight_kg = ordOut.weightKg
                             /\ attempts[id].status = "PENDING"


(***************************************************************************)
(* RankingService.calculateRankings as a function of the registrations of  *)
(* the meet and the attempt rows.  ordIn is the store it reads, ordOut the *)
(* ranking it returned.  The RIS score (a float) is not part of the        *)
(* placement and is left out of the rows.                                  *)
(***************************************************************************)
\* Registration.findByMeet(meetId): the registrations ORDER BY last_name,
\* first_name; registration i is the i-th by name
RankRegs == {1, 2, 3}
RankBodyweights == {70, 75}
\* weight_cat_id: none (null) or category 1
RankWeightCats == {NullId, 1}
\* the attempts of a registration: the first at 100 kg, judged; the second
\* at 110 kg, absent or VALID
RankFirstStatuses == {"VALID", "INVALID"}
RankSecondStatuses == {"NONE", "VALID"}
RankFirstKg == 100
RankSecondKg == 110

InitRanking ==
  /\ \E bw \in [RankRegs -> RankBodyweights], wc \in [RankRegs -> RankWeightCats],
        s1 \in [RankRegs -> RankFirstStatuses], s2 \in [RankRegs -> RankSecondStatuses],
        ord \in Permutations(RankRegs) :
       ordIn =
         [registrations |->
            [i \in RankRegs |->
               [id |-> i, sex |-> "M", bodyweight_kg |-> bw[i],
                weight_cat_id |-> wc[i], age_cat_id |-> NullId]],
          start_ord |-> ord,
          rows |-> [id \in {MachineRowId(r, 1) : r \in RankRegs}
                           \cup {MachineRowId(r, 2) : r \in {x \in RankRegs : s2[x] # "NONE"}} |->
                      LET r == CHOOSE x \in RankRegs :
                                 id \in {MachineRowId(x, 1), MachineRowId(x, 2)}
                      IN IF id = MachineRowId(r, 1)
                           THEN [reg_id |-> r, lift_id |-> "MU", attempt_no |-> 1,
                                 weight_kg |-> RankFirstKg, status |-> s1[r]]
                           ELSE [reg_id |-> r, lift_id |-> "MU", attempt_no |-> 2,
                                 weight_kg |-> RankSecondKg, status |-> s2[r]]]]
  /\ ordOut = [ranked |-> FALSE, rankings |-> <<>>]
  /\ attempts = <<>>
  /\ cs = ResetRow
  /\ tasks = <<>>
  /\ ncmd = 0
  /\ votes = EmptyMap
  /\ call = NoCall
  /\ voted = [a \in TallyAttemptIds |-> {}]

\* calculateTotal(regId, liftId): the best VALID attempt, 0 without one
calculateTotal(rows, regId, liftId) ==
  LET validAttempts == {id \in findByRegistrationAndLift(rows, regId, liftId) :
                          rows[id].status = "VALID"}
  IN IF validAttempts = {} THEN 0
     ELSE CHOOSE w \in {rows[id].weight_kg : id \in validAttempts} :
            \A id \in validAttempts : rows[id].weight_kg <= w

\* the key of _groupByCategory: `${sex}_${weight_cat_id || 'OPEN'}_${age_cat_id || 'OPEN'}`
categoryKey(athlete) ==
  <<athlete.sex,
    IF athlete.weight_cat_id = NullId THEN "OPEN" ELSE "wc1",
    IF athlete.age_cat_id = NullId THEN "OPEN" ELSE "ac1">>

\* the comparator of the sort: total DESC, then bodyweight ASC
compareRanked(a, b) ==
  IF b.total # a.total THEN b.total - a.total
  ELSE a.bodyweight_kg - b.bodyweight_kg

RECURSIVE InsertRanked(_, _)
InsertRanked(s, x) ==
  IF s = <<>> THEN <<x>>
  ELSE IF compareRanked(x, Head(s)) < 0 THEN <<x>> \o s
  ELSE <<Head(s)>> \o InsertRanked(Tail(s), x)

\* athletes.sort(...): Array.prototype.sort is stable (ES2019)
RECURSIVE SortRanked(_)
SortRanked(s) ==
  IF s = <<>> THEN <<>>
  ELSE InsertRanked(SortRanked(SubSeq(s, 1, Len(s) - 1)), s[Len(s)])

\* the elements of s that satisfy the test, in the order of s
RECURSIVE SelectCategory(_, _)
SelectCategory(s, key) ==
  IF s = <<>> THEN <<>>
  ELSE IF categoryKey(Head(s)) = key
    THEN <<Head(s)>> \o SelectCategory(Tail(s), key)
  ELSE SelectCategory(Tail(s), key)

\* the keys of _groupByCategory(athletes) in insertion order
RECURSIVE CategoryKeys(_)
CategoryKeys(s) ==
  IF s = <<>> THEN <<>>
  ELSE LET before == CategoryKeys(SubSeq(s, 1, Len(s) - 1))
           key == categoryKey(s[Len(s)])
       IN IF \E i \in DOMAIN before : before[i] = key THEN before
          ELSE Append(before, key)

\* results.filter(r => r.total > 0)
RECURSIVE WithTotal(_)
WithTotal(s) ==
  IF s = <<>> THEN <<>>
  ELSE IF Head(s).total > 0 THEN <<Head(s)>> \o WithTotal(Tail(s))
  ELSE WithTotal(Tail(s))

\* the placements of the categories keys[k..], appended in order
RECURSIVE RankCategories(_, _, _)
RankCategories(valid, keys, k) ==
  IF k > Len(keys) THEN <<>>
  ELSE LET athletes == SortRanked(SelectCategory(valid, keys[k]))
       IN [i \in 1..Len(athletes) |->
             [reg_id |-> athletes[i].reg_id, sex |-> athletes[i].sex,
              bodyweight_kg |-> athletes[i].bodyweight_kg,
              weight_cat_id |-> athletes[i].weight_cat_id,
              age_cat_id |-> athletes[i].age_cat_id, total |-> athletes[i].total,
              placement |-> i, category |-> keys[k]]]
            \o RankCategories(valid, keys, k + 1)

\* calculateRankings(meetId, liftId)
calculateRankings(registrations, rows, liftId) ==
  LET results == [i \in DOMAIN registrations |->
                    [reg_id |-> registrations[i].id, sex |-> registrations[i].sex,
                     bodyweight_kg |-> registrations[i].bodyweight_kg,
                     weight_cat_id |-> registrations[i].weight_cat_id,
                     age_cat_id |-> registrations[i].age_cat_id,
                     total |-> calculateTotal(rows, registrations[i].id, liftId)]]
      validResults == WithTotal(results)
  IN RankCategories(validResults, CategoryKeys(validResults), 1)

RankingRank ==
  /\ ordOut' = [ranked |-> TRUE,
                rankings |-> calculateRankings(ordIn.registrations, ordIn.rows, "MU")]
  /\ UNCHANGED <<votes, attempts, cs, tasks, ncmd, call, voted, ordIn>>

NextRanking == RankingRank

SpecRanking == InitRanking /\ [][NextRanking]_vars

\* a sorts strictly before b by total DESC, bodyweight ASC, start_ord ASC
RankedBefore(a, b, startOrd) ==
  \/ a.total > b.total
  \/ a.total = b.total /\ a.bodyweight_kg < b.bodyweight_kg
  \/ /\ a.total = b.total /\ a.bodyweight_kg = b.bodyweight_kg
     /\ startOrd[a.reg_id] < startOrd[b.reg_id]

\* C28: within each category of a ranking the placements are exactly 1..n,
\* no gap and no repeat, and they follow total descending, then bodyweight
\* ascending, then start_ord ascending.
C28_PlacementsFollowSortKey ==
  LET rk == ordOut.rankings
      InCat(c) == {i \in DOMAIN rk : rk[i].category = c}
  IN ordOut.ranked
     => \A c \in {rk[i].category : i \in DOMAIN rk} :
          /\ {rk[i].placement : i \in InCat(c)} = 1..Cardinality(InCat(c))
          /\ \A i, j \in InCat(c) :
               rk[i].placement < rk[j].placement
               => RankedBefore(rk[i], rk[j], ordIn.start_ord)


(***************************************************************************)
(* database/sync.js: `node sync.js <meet_code>` against the remote         *)
(* archive.  Every remoteClient.query is its own statement (the script     *)
(* opens no transaction), so a run that fails at a statement has applied   *)
(* the statements before it.  ordIn is the remote archive, ordOut the last *)
(* run and how the process exited.                                         *)
(***************************************************************************)
\* the meet codes of the local database, and one that is not there
LocalMeetCodes == {"M1", "M2"}
SyncArguments == LocalMeetCodes \cup {"M9"}

\* getResults(localDb, meet.id): cf and best valid lift of every registration
\* (one lift, MU; all athletes in the same weight and age category, which the
\* remote archive knows by name)
LocalResults ==
  [M1 |-> <<[cf |-> "A", best_mu |-> 100], [cf |-> "B", best_mu |-> 90]>>,
   M2 |-> <<[cf |-> "A", best_mu |-> 105]>>]

RecordKey == "wc1-ac1-MU"
\* public_records before the first run: no record of the category, or 95 kg
NoRecords == [k \in {} |-> [record_kg |-> 0, athlete_cf |-> Null, meet_code |-> Null]]
OldRecords ==
  [k \in {RecordKey} |-> [record_kg |-> 95, athlete_cf |-> "C", meet_code |-> Null]]

\* the record is 100 kg, the best lift of meet M1
TiedRecords ==
  [k \in {RecordKey} |-> [record_kg |-> 100, athlete_cf |-> "C", meet_code |-> Null]]

InitSync ==
  /\ \E recs \in {NoRecords, OldRecords, TiedRecords} :
       ordIn = [athletes |-> {}, meets |-> {}, results |-> <<>>, records |-> recs]
  /\ ordOut = [meetCode |-> Null, exit |-> 0, failedAt |-> 0, meetAt |-> 0]
  /\ ncmd = 0
  /\ attempts = <<>>
  /\ cs = ResetRow
  /\ tasks = <<>>
  /\ votes = EmptyMap
  /\ call = NoCall
  /\ voted = [a \in TallyAttemptIds |-> {}]

\* final_placing: the index after the stable sort by points descending
finalPlacing(results, i) ==
  1 + Cardinality({j \in DOMAIN results :
                     \/ results[j].best_mu > results[i].best_mu
                     \/ results[j].best_mu = results[i].best_mu /\ j < i})

\* the statements of one run that write, in order: syncAthletes,
\* createRemoteMeet, uploadResults, checkAndUpdateRecords
syncStatements(meetCode) ==
  LET results == LocalResults[meetCode]
  IN [i \in DOMAIN results |-> [t |-> "athlete", cf |-> results[i].cf]]
     \o <<[t |-> "meet", meet_code |-> meetCode]>>
     \o [i \in DOMAIN results |->
           [t |-> "result", meet_code |-> meetCode, cf |-> results[i].cf,
            total |-> results[i].best_mu,
            final_placing |-> finalPlacing(results, i)]]
     \o [i \in DOMAIN results |->
           [t |-> "record", meet_code |-> meetCode, cf |-> results[i].cf,
            weight |-> results[i].best_mu]]

applyStatement_AtLeast(remote, st) ==
  IF st.t = "athlete" THEN [remote EXCEPT !.athletes = @ \cup {st.cf}]
  ELSE IF st.t = "meet" THEN [remote EXCEPT !.meets = @ \cup {st.meet_code}]
  ELSE IF st.t = "result"
    THEN [remote EXCEPT !.results =
            Append(@, [meet_code |-> st.meet_code, cf |-> st.cf, total |-> st.total,
                       final_placing |-> st.final_placing])]
  ELSE IF RecordKey \notin DOMAIN remote.records
          \/ st.weight >= remote.records[RecordKey].record_kg
    THEN [remote EXCEPT !.records =
            [k \in {RecordKey} |-> [record_kg |-> st.weight, athlete_cf |-> st.cf,
                                    meet_code |-> st.meet_code]]]
  ELSE remote

\* one statement on the archive: the athlete and meet upserts, the INSERT of a
\* result, the record upsert when there is no record or the lift is heavier
applyStatement(remote, st) ==
  IF st.t = "athlete" THEN [remote EXCEPT !.athletes = @ \cup {st.cf}]
  ELSE IF st.t = "meet" THEN [remote EXCEPT !.meets = @ \cup {st.meet_code}]
  ELSE IF st.t = "result"
    THEN [remote EXCEPT !.results =
            Append(@, [meet_code |-> st.meet_code, cf |-> st.cf, total |-> st.total,
                       final_placing |-> st.final_placing])]
  ELSE IF RecordKey \notin DOMAIN remote.records
          \/ st.weight > remote.records[RecordKey].record_kg
    THEN [remote EXCEPT !.records =
            [k \in {RecordKey} |-> [record_kg |-> st.weight, athlete_cf |-> st.cf,
                                    meet_code |-> st.meet_code]]]
  ELSE remote

\* the archive after the first n statements
RECURSIVE applyStatements(_, _, _)
applyStatements(remote, sts, n) ==
  IF n = 0 THEN remote
  ELSE applyStatement(applyStatements(remote, sts, n - 1), sts[n])

\* syncToRemote(meetCode): failAt = 0 when every statement succeeds, k when
\* the k-th statement is rejected by the remote database
SyncToRemote ==
  \E meetCode \in SyncArguments :
    /\ ncmd < MaxSyncRuns
    /\ ncmd' = ncmd + 1
    /\ IF meetCode \notin LocalMeetCodes
         THEN /\ ordIn' = ordIn
              /\ ordOut' = [meetCode |-> meetCode, exit |-> 1, failedAt |-> 0,
                            meetAt |-> 0]
         ELSE LET sts == syncStatements(meetCode)
                  meetAt == CHOOSE i \in DOMAIN sts : sts[i].t = "meet"
              IN \E failAt \in 0..Len(sts) :
                   /\ ordIn' = applyStatements(ordIn, sts,
                                 IF failAt = 0 THEN Len(sts) ELSE failAt - 1)
                   /\ ordOut' = [meetCode |-> meetCode,
                                 exit |-> IF failAt = 0 THEN 0 ELSE 1,
                                 failedAt |-> failAt, meetAt |-> meetAt]
    /\ UNCHANGED <<votes, attempts, cs, tasks, call, voted>>

NextSync == SyncToRemote

SpecSync == InitSync /\ [][NextSync]_vars

\* C29: sync of a meet_code that is already in the remote archive (no
\* --force) writes nothing, returns AlreadySynced (exit code 2) and leaves
\* meets, results and records as they were.
C29_SecondSyncIsNoOp ==
  [][ (ncmd' = ncmd + 1 /\ ordOut'.meetCode \in ordIn.meets)
      => /\ ordOut'.exit = 2
         /\ ordIn' = ordIn ]_vars

\* C30: a run that fails at a step after the meet record was written leaves
\* no meet row, no result row and no record change of that run in the
\* remote archive.
C30_SyncAllOrNothing ==
  [][ (ncmd' = ncmd + 1 /\ ordOut'.exit = 1 /\ ordOut'.failedAt > ordOut'.meetAt
       /\ ordOut'.meetAt > 0)
      => /\ ordIn'.meets = ordIn.meets
         /\ ordIn'.results = ordIn.results
         /\ ordIn'.records = ordIn.records ]_vars


\* record_kg of the category and lift, 0 when there is no record
RecordKg(remote) ==
  IF RecordKey \in DOMAIN remote.records THEN remote.records[RecordKey].record_kg ELSE 0

\* the best valid lift of the meet in the category
BestLocalLift(meetCode) ==
  CHOOSE w \in {LocalResults[meetCode][i].best_mu : i \in DOMAIN LocalResults[meetCode]} :
    \A i \in DOMAIN LocalResults[meetCode] : LocalResults[meetCode][i].best_mu <= w

\* C31: a remote record is replaced during sync only by a valid local lift
\* strictly greater than the current record (or when there is none); an equal
\* lift changes nothing, the record never decreases, and after a sync the
\* record is the maximum of the old record and the best valid local lift.
C31_RecordOnlyRaised ==
  [][ ncmd' = ncmd + 1
      => /\ RecordKg(ordIn') >= RecordKg(ordIn)
         /\ ordIn'.records # ordIn.records
            => /\ RecordKg(ordIn') > RecordKg(ordIn)
               /\ \E i \in DOMAIN LocalResults[ordOut'.meetCode] :
                    /\ LocalResults[ordOut'.meetCode][i].best_mu = RecordKg(ordIn')
                    /\ LocalResults[ordOut'.meetCode][i].cf =
                         ordIn'.records[RecordKey].athlete_cf
         /\ (ordOut'.exit = 0 /\ ordOut'.meetCode \in LocalMeetCodes)
            => RecordKg(ordIn') =
                 IF BestLocalLift(ordOut'.meetCode) > RecordKg(ordIn)
                   THEN BestLocalLift(ordOut'.meetCode) ELSE RecordKg(ordIn) ]_vars

\* a sync of M1 has run to its end on an archive whose record was 100 kg, the
\* best lift of M1: the record is still the old one
C31_Witness ==
  /\ ordOut.meetCode = "M1" /\ ordOut.exit = 0
  /\ RecordKey \in DOMAIN ordIn.records
  /\ ordIn.records[RecordKey] = TiedRecords[RecordKey]


\* the queue of a group for a round of the current lift, on the rows as they are
QueueOf(groupId, round) ==
  getUpcomingOrder(GroupEntryRows, OpenerRows, attempts, groupId,
                   cs.current_lift_id, round)

\* the groups of the current flight after the current group
LaterGroups ==
  LET groups == findGroupsByFlight(cs.current_flight_id)
      k == IndexOf(groups, cs.current_group_id)
  IN {groups[i] : i \in {j \in DOMAIN groups : k # 0 /\ j > k}}

\* C32: when the queue of the current round is empty and the round is below
\* 3, NEXT moves to the following round, and goes on to later rounds and then
\* to the next group when that queue is empty too; NEXT reports finished only
\* when no later round of the group and no later group has anyone left to lift.
C32_NextRetriesLaterRounds ==
  [][ (ordOut'.op = "next" /\ ~ordOut'.threw)
      => /\ (/\ QueueOf(cs.current_group_id, cs.current_round) = <<>>
             /\ cs.current_round < 3
             /\ QueueOf(cs.current_group_id, cs.current_round + 1) # <<>>)
            => /\ cs'.current_round = cs.current_round + 1
               /\ cs'.current_reg_id =
                    QueueOf(cs.current_group_id, cs.current_round + 1)[1].reg_id
         /\ ordOut'.finished
            => /\ \A r \in cs.current_round..3 : QueueOf(cs.current_group_id, r) = <<>>
               /\ \A g \in LaterGroups, r \in 1..3 : QueueOf(g, r) = <<>> ]_vars


\* the groups of a flight before the given group
EarlierGroups(state) ==
  LET groups == findGroupsByFlight(state.current_flight_id)
      k == IndexOf(groups, state.current_group_id)
  IN {groups[i] : i \in {j \in DOMAIN groups : j < k}}

\* the PENDING attempts with a declared weight, for rounds 1 to 3 of the
\* lift, of the athletes of a group
PendingDeclared(rows, groupId, liftId) ==
  {id \in DOMAIN rows :
     /\ \E e \in GroupEntryRows : e.group_id = groupId /\ e.reg_id = rows[id].reg_id
     /\ rows[id].lift_id = liftId
     /\ rows[id].attempt_no \in 1..3
     /\ rows[id].status = "PENDING"
     /\ rows[id].weight_kg > 0}

\* C33: NEXT never places the current pointer on a later group of the flight
\* while an athlete of an earlier group still has a PENDING attempt with a
\* declared weight for round 1, 2 or 3 of the lift.
C33_EarlierGroupsFirst ==
  [][ (ordOut'.op = "next" /\ cs'.current_group_id # cs.current_group_id)
      => \A g \in EarlierGroups(cs') :
           PendingDeclared(attempts', g, cs'.current_lift_id) = {} ]_vars



(***************************************************************************)
(* StateMachine.declareWeight called from handlers that overlap: a call    *)
(* gives up control at each await, so between its                          *)
(* Attempt.findByRegistrationAndLift and its Attempt.updateWeight or       *)
(* Attempt.create another call can run.  tasks[p] is call p, attempts the  *)
(* table with its UNIQUE (reg_id, lift, attempt_no).                       *)
(***************************************************************************)
OverlapCalls == {1, 2}
OverlapRegs == {1}
OverlapAttemptNos == {2, 3}
OverlapWeights == {100, 105}

IdleCall ==
  [pc |-> "idle", regId |-> NullId, attemptNo |-> 0, weightKg |-> 0,
   existing |-> NullId, attemptId |-> NullId, threw |-> FALSE]

\* the opener of the registration, judged, and possibly a second attempt
\* already declared
InitOverlap ==
  /\ attempts \in
       {[id \in {1} |-> [MachineAttempts[1] EXCEPT !.status = "VALID"]],
        [id \in {1, 2} |->
           IF id = 1 THEN [MachineAttempts[1] EXCEPT !.status = "VALID"]
           ELSE [reg_id |-> 1, lift_id |-> "MU", attempt_no |-> 2,
                 weight_kg |-> 95, status |-> "PENDING"]]}
  /\ tasks = [p \in OverlapCalls |-> IdleCall]
  /\ ordOut = NoDeclare
  /\ ordIn = <<>>
  /\ cs = ResetRow
  /\ ncmd = 0
  /\ votes = EmptyMap
  /\ call = NoCall
  /\ voted = [a \in TallyAttemptIds |-> {}]

OverlapRest == <<votes, cs, ncmd, call, voted, ordIn, ordOut>>

\* the rowid SQLite gives to an INSERT into an INTEGER PRIMARY KEY table
lastID(rows) ==
  1 + (CHOOSE m \in DOMAIN rows \cup {0} : \A id \in DOMAIN rows : id <= m)

\* declareWeight up to its first await: the attempts of (regId, liftId) are
\* read and the row with attempt_no = attemptNo is looked up
OverlapRead(p) ==
  \E regId \in OverlapRegs, attemptNo \in OverlapAttemptNos, w \in OverlapWeights :
    LET found == findAttemptNo(attempts, regId, "MU", attemptNo)
    IN /\ tasks[p].pc = "idle"
       /\ tasks' = [tasks EXCEPT ![p] =
                      [IdleCall EXCEPT !.pc = "write", !.regId = regId,
                                       !.attemptNo = attemptNo, !.weightKg = w,
                                       !.existing = IF found = {} THEN NullId
                                                    ELSE CHOOSE id \in found : TRUE]]
       /\ UNCHANGED <<attempts, OverlapRest>>

\* UNIQUE (reg_id, lift, attempt_no) lets the INSERT of this key through
mayInsert(rows, regId, attemptNo) == findAttemptNo(rows, regId, "MU", attemptNo) = {}

\* the rest of declareWeight: Attempt.updateWeight on the row it found, or
\* Attempt.create, whose INSERT the UNIQUE constraint rejects when a row of
\* the key has appeared since the read; the rejection is thrown to the caller

OverlapWrite(p) ==
  LET f == tasks[p]
      newId == lastID(attempts)
  IN /\ f.pc = "write"
     /\ IF f.existing # NullId
          THEN /\ attempts' = updateWeight(attempts, f.existing, f.weightKg)
               /\ tasks' = [tasks EXCEPT ![p].pc = "done", ![p].attemptId = f.existing]
        ELSE IF mayInsert(attempts, f.regId, f.attemptNo)
          THEN /\ attempts' =
                    [id \in DOMAIN attempts \cup {newId} |->
                       IF id = newId
                         THEN [reg_id |-> f.regId, lift_id |-> "MU",
                               attempt_no |-> f.attemptNo, weight_kg |-> f.weightKg,
                               status |-> "PENDING"]
                         ELSE attempts[id]]
               /\ tasks' = [tasks EXCEPT ![p].pc = "done", ![p].attemptId = newId]
        ELSE /\ attempts' = attempts
             /\ tasks' = [tasks EXCEPT ![p].pc = "done", ![p].threw = TRUE]
     /\ UNCHANGED OverlapRest

NextOverlap == \E p \in OverlapCalls : OverlapRead(p) \/ OverlapWrite(p)

SpecOverlap == InitOverlap /\ [][NextOverlap]_vars

\* at most one row for each (registration, lift, attempt_no)
OneRowPerKey(rows) ==
  \A a, b \in DOMAIN rows :
    (/\ rows[a].reg_id = rows[b].reg_id /\ rows[a].lift_id = rows[b].lift_id
     /\ rows[a].attempt_no = rows[b].attempt_no) => a = b

\* C34: at most one attempt row exists per (registration, lift, attempt_no)
\* under every interleaving of declareWeight calls, and two calls for the
\* same key, overlapping ones included, both complete without error and leave
\* the weight of one of them in the row.
C34_OverlappingDeclarations ==
  /\ OneRowPerKey(attempts)
  /\ \A p, q \in OverlapCalls :
       (/\ p # q /\ tasks[p].pc = "done" /\ tasks[q].pc = "done"
        /\ tasks[p].regId = tasks[q].regId /\ tasks[p].attemptNo = tasks[q].attemptNo)
       => /\ ~tasks[p].threw /\ ~tasks[q].threw
          /\ \A id \in findAttemptNo(attempts, tasks[p].regId, "MU", tasks[p].attemptNo) :
               attempts[id].weight_kg \in {tasks[p].weightKg, tasks[q].weightKg}



(***************************************************************************)
(* The three judges' sessions of a meet: each socket has joined with       *)
(* join:judge, votes with judge:vote (the handler runs to its end) and can *)
(* disconnect.  ordIn holds the sessions, votes the tally of the           *)
(* ValidationService, ordOut the last event handled and what it emitted.   *)
(***************************************************************************)
JudgeSockets == {"h", "l", "r"}
SessionRole == [h |-> "HEAD", l |-> "LEFT", r |-> "RIGHT"]
\* the attempt on deck
SessionAttempts == {2}

\* after join:judge with the role of the socket
JudgeSession(s) ==
  [rooms |-> {"meet_1", "judges_1"}, judgeRole |-> SessionRole[s], meetId |-> "1",
   connected |-> TRUE]

InitSession ==
  /\ ordIn = [s \in JudgeSockets |-> JudgeSession(s)]
  /\ ordOut = NoCommand
  /\ votes = EmptyMap
  /\ attempts = LiftedAttempts
  /\ cs = LiftedRow
  /\ tasks = <<>>
  /\ ncmd = 0
  /\ call = NoCall
  /\ voted = [a \in TallyAttemptIds |-> {}]

SessionRest == <<cs, tasks, ncmd, call, voted>>

\* _handleJudgeVote(socket, {attemptId, vote}) from a connected socket
SessionVote ==
  \E s \in JudgeSockets, a \in SessionAttempts, v \in VoteInputs :
    LET sess == ordIn[s]
        judgeRole == sess.judgeRole
        res == registerVote(votes, a, judgeRole, v)
        received ==
          [NoEvent EXCEPT !.to = "regista_1", !.event = "vote:received",
                          !.attemptId = a, !.judgeRole = judgeRole, !.vote = v,
                          !.voteCount = IF res.ret.isComplete THEN 3
                                        ELSE getVoteCount(res.votes, a)]
        result ==
          [NoEvent EXCEPT !.to = "meet_1", !.event = "attempt:result",
                          !.attemptId = a, !.result = res.ret.result,
                          !.votes = res.ret.votes]
        ranking ==
          [NoEvent EXCEPT !.to = "meet_1", !.event = "ranking:update", !.state = cs]
        confirmed ==
          [NoEvent EXCEPT !.to = SocketRoom(s), !.event = "vote:confirmed",
                          !.attemptId = a, !.vote = v]
        record(out) == [socket |-> s, cmd |-> "judge:vote", out |-> out]
    IN /\ sess.connected
       /\ IF res.threw
            THEN /\ votes' = res.votes /\ attempts' = attempts
                 /\ ordOut' = record(<<ErrorEvent(s, res.error)>>)
          ELSE IF ~res.ret.isComplete
            THEN /\ votes' = res.votes /\ attempts' = attempts
                 /\ ordOut' = record(<<received, confirmed>>)
          ELSE /\ votes' = clearVotes(res.votes, a)
               /\ attempts' = updateStatus(attempts, a, res.ret.result)
               /\ ordOut' = record(<<received, result, ranking, confirmed>>)
       /\ UNCHANGED <<ordIn, SessionRest>>

onDisconnect_DropVotes(vs, judgeRole) ==
  [a \in DOMAIN vs |-> MapDelete(vs[a], judgeRole)]

\* socket.on('disconnect'): the handler logs the socket id; the tally is left
\* as it is
onDisconnect(vs, judgeRole) == vs

\* a judge's socket disconnects: socket.io takes it out of its rooms
SessionDisconnect ==
  \E s \in JudgeSockets :
    /\ ordIn[s].connected
    /\ ordIn' = [ordIn EXCEPT ![s].connected = FALSE, ![s].rooms = {}]
    /\ votes' = onDisconnect(votes, ordIn[s].judgeRole)
    /\ ordOut' = [socket |-> s, cmd |-> "disconnect", out |-> <<>>]
    /\ UNCHANGED <<attempts, SessionRest>>

\* the judge connects again and sends join:judge with the same role
SessionJoinJudge ==
  \E s \in JudgeSockets :
    /\ ~ordIn[s].connected
    /\ ordIn' = [ordIn EXCEPT ![s] = JudgeSession(s)]
    /\ ordOut' = [socket |-> s, cmd |-> "join:judge", out |-> <<>>]
    /\ UNCHANGED <<votes, attempts, SessionRest>>

NextSession == SessionVote \/ SessionDisconnect \/ SessionJoinJudge

SpecSession == InitSession /\ [][NextSession]_vars

\* the verdict of three votes: two or more WHITE
MajorityOf(av) ==
  IF Cardinality({r \in DOMAIN av : av[r] = "WHITE"}) >= 2 THEN "VALID" ELSE "INVALID"

\* the votes held for an attempt
TallyOf(vs, a) == IF a \in DOMAIN vs THEN vs[a] ELSE EmptyMap

Finalizing(t) == tasks[t].kind = "vote" /\ tasks[t].pc \in {"finalize", "rankings"}

\* C36: for each attempt the broker broadcasts attempt:result at most once
\* and writes its status at most once under every interleaving of vote
\* handlers: a vote for the same attempt handled while the finalization
\* started by the third vote still awaits its status write does not start a
\* second finalization.
C36_FinalizedOnce ==
  \A t, u \in TaskIds :
    (Finalizing(t) /\ Finalizing(u) /\ tasks[t].attemptId = tasks[u].attemptId)
    => t = u



\* C37: whenever initialize, or a NEXT that does not report finished, has
\* completed, the current registration has no VALID or INVALID attempt for
\* the current lift and round; also after a reset and a new initialize in
\* mid-meet, and after a move to the next group.
C37_PointerOnUnjudgedAttempt ==
  (ordOut.op \in {"initialize", "next"} /\ ~ordOut.threw /\ ~ordOut.finished)
  => \A id \in OnDeck : attempts[id].status \notin JudgedStatuses



\* C38: under NEXT alone the current round never decreases while the current
\* group stays the same; it goes back to 1 only when NEXT moves to another
\* group or initialize or reset is called; so an athlete who declares a weight
\* for round r only after the machine has passed round r is not called for
\* round r.
C38_RoundNeverDecreases ==
  [][ /\ (ordOut'.op = "next" /\ cs'.current_group_id = cs.current_group_id)
         => cs'.current_round >= cs.current_round
      /\ cs'.current_round < cs.current_round
         => /\ cs'.current_round = 1
            /\ \/ ordOut'.op \in {"initialize", "reset"}
               \/ ordOut'.op = "next" /\ cs'.current_group_id # cs.current_group_id ]_vars

\* NEXT has just kept the machine in a later round of the group while an
\* athlete of the group holds a PENDING declaration for a round already passed
C38_Witness ==
  /\ ordOut.op = "next" /\ ~ordOut.threw /\ ~ordOut.finished
  /\ cs.current_round > 1
  /\ \E id \in PendingDeclared(attempts, cs.current_group_id, cs.current_lift_id) :
       attempts[id].attempt_no < cs.current_round



(***************************************************************************)
(* The state machine when the director can initialize any flight at any    *)
(* time, a flight that cannot be started included.  ordOut of an           *)
(* initialize also keeps the CurrentState row the call found.              *)
(***************************************************************************)
initialize_ChecksFirst(state, flightId, liftId) ==
  LET res == initializeUpdate(flightId, liftId)
  IN IF res.error # Null THEN state ELSE applyUpdate(ResetRow, res.upd)

\* initialize(1, flightId, liftId): CurrentState.reset() first, then the
\* checks that throw, then CurrentState.update
initialize(state, flightId, liftId) ==
  applyUpdate(ResetRow, initializeUpdate(flightId, liftId).upd)

ReinitInitialize ==
  \E flightId \in MachineFlights, i \in DOMAIN MeetTypeLifts :
    LET res == initializeUpdate(flightId, MeetTypeLifts[i])
    IN /\ cs' = initialize(cs, flightId, MeetTypeLifts[i])
       /\ ordIn' = [flightId |-> flightId]
       /\ ordOut' = [op |-> "initialize", threw |-> res.error # Null,
                     error |-> res.error, finished |-> FALSE, before |-> cs]
       /\ UNCHANGED <<attempts, votes, tasks, ncmd, call, voted>>

NextReinit == ReinitInitialize \/ MachineNext \/ MachineFinalize \/ MachineReset

SpecReinit == InitMachine /\ [][NextReinit]_vars

\* C39: an initialize that fails, because the flight has no groups or its
\* first group has no athletes, leaves the CurrentState singleton reset (meet,
\* flight, group, lift and current registration nil, round 1), also when a
\* meet was active before the call.
C39_FailedInitializeResets ==
  (ordOut.op = "initialize" /\ ordOut.threw)
  => /\ ordOut.error \in {"No groups in flight", "No athletes in first group"}
     /\ cs.meet_id = NullId /\ cs.current_flight_id = NullId
     /\ cs.current_group_id = NullId /\ cs.current_reg_id = NullId
     /\ cs.current_lift_id = Null /\ cs.current_round = 1

\* initialize has just failed on a flight whose first group has no athletes
\* while the machine was running another flight
C39_Witness ==
  /\ ordOut.op = "initialize" /\ ordOut.threw
  /\ ordOut.error = "No athletes in first group"
  /\ Active(ordOut.before)
  /\ ~Active(cs)

=============================================================================
